---- MODULE Spec2Model ----
(***************************************************************************)
(* Verification model of the editor's graph node base class (GraphNode),   *)
(* the project importer, the output-type propagation and the widget        *)
(* undo/redo hook.                                                         *)
(*                                                                         *)
(* JavaScript runs one job at a time: every action below is one job, from  *)
(* its entry (a public call or the continuation of an await) to the next   *)
(* await or return.  Continuations of fulfilled promises are run from a    *)
(* FIFO microtask queue (mq).                                              *)
(***************************************************************************)
EXTENDS Integers, Sequences, FiniteSets, TLC

\* ------------------------------------------------------------------ bounds
NumNodes == 2
MaxActs == 2

Nodes == 1..NumNodes
Slots == 1..MaxActs
Null == 0

\* ------------------------------------------------- graph execution: state
VARIABLES
    hasPaused,            \* graph.hasPaused
    PausedNode,           \* NodeUtils.PausedNode (Null or a node)
    hasBeakPoint,         \* node -> BOOLEAN
    pausedOnBreakPoint,   \* node -> BOOLEAN
    resumeFn,             \* node -> Null or the activation whose promise _resumeFn resolves
    isExecuting,          \* node -> BOOLEAN (_isExecuting)
    acts,                 \* slot -> pending async call (onExecute or triggerSlot)
    mq,                   \* microtask queue: activations whose awaited promise has settled
    ev                    \* what the last job did (observation only)

execVars == <<hasPaused, PausedNode, hasBeakPoint, pausedOnBreakPoint, resumeFn,
              isExecuting, acts, mq, ev>>

\* --------------------------------------------------- project import: state
VARIABLES
    project,              \* the project file: category and parent id of each node entry
    ipc,                  \* where _ImportProject is: the operation it awaits
    io,                   \* file reads and engine loads in flight
    begun,                \* positions (in processing order) whose entry was started
    ended,                \* positions whose entry has loaded or failed
    inScene,              \* ids of the meshes, transform nodes, lights, cameras of the scene
    waiting,              \* id -> metadata._waitingParentId (Null: none)
    parent,               \* id -> the node's parent (Null: none)
    passDone,             \* the parent-id pass has run
    refresh               \* the editor refresh: "none", "registered" or "called"

impVars == <<project, ipc, io, begun, ended, inScene, waiting, parent, passDone, refresh>>

\* ------------------------------------------------ node connections: state
VARIABLES
    slots,                \* node -> its input slot: [type, linkedOutput]
    linkRule,             \* how the graph library types a new link
    cmode,                \* node -> mode ("ALWAYS", "ON_TRIGGER", "NEVER")
    outType,              \* node -> type of its output "out"
    inLink                \* node -> the link plugged in its input

conVars == <<slots, linkRule, cmode, outType, inLink>>

\* -------------------------------------------------- widget changes: state
VARIABLES
    prop,                 \* this.properties[name]
    wvalue,               \* the widget's value (w.value)
    initialValue,         \* addWidget's initialValue
    callingWidgetCallback,\* _callingWidgetCallback
    timeout,              \* addWidget's timeout handle is set
    timers,               \* pending timers, oldest first: [due, fn, v]
    stack,                \* the undo/redo stack: [oldValue, newValue]
    position,             \* number of entries of the stack that are done
    burst,                \* observation: the burst of changes in progress
    wev                   \* observation: what the last job did

widVars == <<prop, wvalue, initialValue, callingWidgetCallback, timeout,
             timers, stack, position, burst, wev>>

\* --------------------------------------------------- assets browser: state
VARIABLES
    registry,             \* AssetsBrowserItem._ItemMoveHandlers
    rn                    \* the renameFile call in progress, and what it did

astVars == <<registry, rn>>

\* ---------------------------------------------------------- sandbox: state
VARIABLES
    calls,                \* the calls awaited by the message listener, oldest first
    posted,               \* the messages posted to the parent, oldest first
    requests              \* observation: the messages that carried fn, args and id

sbxVars == <<calls, posted, requests>>

\* -------------------------------------------------- material export: state
VARIABLES
    blocks,               \* the serialized blocks, in the order of the loops
    textureIndex,         \* textureIndex of the call
    exports,              \* block -> its export ([pc, index]), "none" if not exported
    files,                \* the files array of the call
    written,              \* observation: the files written on disk
    xpc,                  \* position of ExportSerializedNodeMaterialsTextures
    returned              \* the value the call resolved with

expVars == <<blocks, textureIndex, exports, files, written, xpc, returned>>

\* ------------------------------------------------------- mouse clicks: state
VARIABLES
    click                 \* observation: the arguments of the last onMouseDown

mouVars == <<click>>

\* -------------------------------------------------------- render list: state
VARIABLES
    renderList,           \* renderTarget.renderList when it is an array
    listIsNull,           \* renderTarget.renderList is null
    includedMeshes,       \* state.includedMeshes
    excludedMeshes,       \* state.excludedMeshes
    hasOnChange,          \* props.onChange is given
    onChangeCalled,       \* observation: the last _handleChange called onChange
    transfer              \* observation: the arguments of the last _handleChange

rlVars == <<renderList, listIsNull, includedMeshes, excludedMeshes,
            hasOnChange, onChangeCalled, transfer>>

\* ---------------------------------------------------- assets browser: moves
VARIABLES
    selectedItems,        \* the items moveSelectedItems was called on
    mpc,                  \* where moveSelectedItems stands
    itemIndex,            \* the item of the for loop
    promises,             \* the promise pushed for each item handled so far
    handlerRuns,          \* observation: files handler.moveFile was called on
    movedPaths,           \* observation: paths move() was called on
    refreshCalled         \* observation: refresh() has been called

movVars == <<selectedItems, mpc, itemIndex, promises, handlerRuns, movedPaths,
             refreshCalled>>

vars == <<execVars, impVars, conVars, widVars, astVars, sbxVars, expVars, mouVars, rlVars, movVars>>

WaitPcs == {"preWait", "bpWait", "postWait", "trigWait"}
Outcomes == {"sync", "async", "throw"}

FreeAct == [kind |-> "none", node |-> Null, pc |-> "free", prom |-> "none"]

NoEv == [op |-> "none", node |-> Null, act |-> Null,
         started |-> FALSE, viaBP |-> FALSE,
         threw |-> FALSE, logged |-> FALSE, rejected |-> FALSE,
         finished |-> FALSE, skipped |-> FALSE, forwarded |-> FALSE]

\* The program state as one record, so that the methods are functions on it.
St == [hasPaused |-> hasPaused, PausedNode |-> PausedNode,
       hasBeakPoint |-> hasBeakPoint, pausedOnBreakPoint |-> pausedOnBreakPoint,
       resumeFn |-> resumeFn, isExecuting |-> isExecuting,
       acts |-> acts, mq |-> mq, ev |-> ev]

ApplyExec(S) ==
    /\ hasPaused' = S.hasPaused
    /\ PausedNode' = S.PausedNode
    /\ hasBeakPoint' = S.hasBeakPoint
    /\ pausedOnBreakPoint' = S.pausedOnBreakPoint
    /\ resumeFn' = S.resumeFn
    /\ isExecuting' = S.isExecuting
    /\ acts' = S.acts
    /\ mq' = S.mq
    /\ ev' = S.ev
    /\ UNCHANGED <<impVars, conVars, widVars, astVars, sbxVars, expVars, rlVars, movVars>>

Apply(S) ==
    /\ ApplyExec(S)
    /\ UNCHANGED mouVars

Begin(op, n, a) == [St EXCEPT !.ev = [NoEv EXCEPT !.op = op, !.node = n, !.act = a]]

FreeSlots(S) == {a \in Slots : S.acts[a].pc = "free"}
NewSlot(S) == CHOOSE a \in FreeSlots(S) : \A b \in FreeSlots(S) : a <= b

\* ---------------------------------------------- graph execution: methods

\* waitForBreakPoint(): a new promise whose resolver replaces _resumeFn.
\* The node is attached to its graph throughout (onExecute and triggerSlot
\* dereference this.graph before they wait).
waitForBreakPoint_Resolved(S, a, pc) ==
    [S EXCEPT !.acts[a].pc = pc, !.acts[a].prom = "resolved",
              !.mq = Append(S.mq, a)]

waitForBreakPoint(S, a, pc) ==
    [S EXCEPT !.resumeFn[S.acts[a].node] = a,
              !.acts[a].pc = pc, !.acts[a].prom = "pending"]

\* onExecute, lines 379-383: the check after the node's work, then the end.
PostWork_NoCheck(S, a) ==
    [S EXCEPT !.isExecuting[S.acts[a].node] = FALSE,
              !.acts[a] = FreeAct, !.ev.finished = TRUE]

PostWork(S, a) ==
    IF S.hasPaused
    THEN waitForBreakPoint(S, a, "postWait")
    ELSE [S EXCEPT !.isExecuting[S.acts[a].node] = FALSE,
                   !.acts[a] = FreeAct, !.ev.finished = TRUE]

\* The catch block of onExecute: console.error(e).
Caught_Rethrow(S, a) ==
    [S EXCEPT !.ev.threw = TRUE, !.ev.rejected = TRUE, !.acts[a] = FreeAct]

Caught(S, a) == PostWork([S EXCEPT !.ev.threw = TRUE, !.ev.logged = TRUE], a)

\* onExecute, lines 373-377: try { await this.execute() }.  execute() returns
\* a value or a settled promise ("sync"), returns a promise that settles later
\* ("async"), or throws before returning ("throw").
Execute(S, a, o) ==
    LET S1 == [S EXCEPT !.ev.started = TRUE]
    IN CASE o = "sync"  -> [S1 EXCEPT !.acts[a].pc = "executing",
                                      !.acts[a].prom = "resolved",
                                      !.mq = Append(S1.mq, a)]
         [] o = "async" -> [S1 EXCEPT !.acts[a].pc = "executing",
                                      !.acts[a].prom = "pending"]
         [] o = "throw" -> Caught(S1, a)

\* onExecute, lines 357-371: the check before the node's work, the breakpoint.
PreWork_NoCheck(S, a, o) ==
    IF S.hasBeakPoint[S.acts[a].node]
    THEN waitForBreakPoint(
             [S EXCEPT !.hasPaused = TRUE,
                       !.pausedOnBreakPoint[S.acts[a].node] = TRUE,
                       !.PausedNode = S.acts[a].node], a, "bpWait")
    ELSE Execute(S, a, o)

PreWork(S, a, o) ==
    IF S.hasPaused
    THEN waitForBreakPoint(S, a, "preWait")
    ELSE IF S.hasBeakPoint[S.acts[a].node]
         THEN waitForBreakPoint(
                  [S EXCEPT !.hasPaused = TRUE,
                            !.pausedOnBreakPoint[S.acts[a].node] = TRUE,
                            !.PausedNode = S.acts[a].node], a, "bpWait")
         ELSE Execute(S, a, o)

\* onExecute, line 370 and on: the continuation of the breakpoint's await.
AfterBreakPoint_KeepPaused(S, a, o) ==
    Execute([S EXCEPT !.ev.viaBP = TRUE], a, o)

AfterBreakPoint(S, a, o) ==
    Execute([S EXCEPT !.PausedNode = Null, !.ev.viaBP = TRUE], a, o)

\* onExecute, lines 374-377: the continuation of await this.execute().
AfterExecute(S, a) ==
    IF S.acts[a].prom = "rejected" THEN Caught(S, a) ELSE PostWork(S, a)

\* onExecute() called on node n; a is the slot of the new activation.
onExecute(S, n, a, o) ==
    IF S.isExecuting[n]
    THEN [S EXCEPT !.ev.skipped = TRUE]
    ELSE PreWork([S EXCEPT !.isExecuting[n] = TRUE,
                           !.acts[a] = [FreeAct EXCEPT !.kind = "exec", !.node = n,
                                                       !.pc = "entry"],
                           !.ev.act = a], a, o)

\* super.triggerSlot(): the trigger is handed to the linked nodes.
Forward(S) == [S EXCEPT !.ev.forwarded = TRUE]

\* triggerSlot() called on node n.
triggerSlot(S, n, a) ==
    IF S.hasPaused
    THEN waitForBreakPoint(
             [S EXCEPT !.acts[a] = [FreeAct EXCEPT !.kind = "trig", !.node = n,
                                                   !.pc = "entry"],
                       !.ev.act = a], a, "trigWait")
    ELSE Forward(S)

AfterTriggerWait(S, a) == Forward([S EXCEPT !.acts[a] = FreeAct])

\* Calling the resolver of activation a's promise; a settled promise ignores it.
Resolve(S, a) ==
    IF S.acts[a].pc \in WaitPcs /\ S.acts[a].prom = "pending"
    THEN [S EXCEPT !.acts[a].prom = "resolved", !.mq = Append(S.mq, a)]
    ELSE S

\* resume()
resume_KeepFn(S, n) ==
    IF S.resumeFn[n] # Null THEN Resolve(S, S.resumeFn[n]) ELSE S

resume(S, n) ==
    [(IF S.resumeFn[n] # Null THEN Resolve(S, S.resumeFn[n]) ELSE S)
        EXCEPT !.resumeFn[n] = Null]

\* onStop()
onStop_Resume(S, n) ==
    resume([S EXCEPT !.pausedOnBreakPoint[n] = FALSE,
                     !.isExecuting[n] = FALSE,
                     !.PausedNode = Null], n)

onStop_Unpause(S, n) ==
    [S EXCEPT !.pausedOnBreakPoint[n] = FALSE,
              !.isExecuting[n] = FALSE,
              !.PausedNode = Null,
              !.hasPaused = FALSE]

onStop(S, n) ==
    [S EXCEPT !.pausedOnBreakPoint[n] = FALSE,
              !.isExecuting[n] = FALSE,
              !.PausedNode = Null]

\* NodeUtils.ResumeExecution(): the user's resume click.  It clears the
\* graph's pause flag and resumes every node of the graph.
RECURSIVE ResumeAll(_, _)
ResumeAll(S, k) ==
    IF k > NumNodes THEN S ELSE ResumeAll(resume(S, k), k + 1)

ResumeExecution(S) == ResumeAll([S EXCEPT !.hasPaused = FALSE], 1)

\* The size of the node, the places of the model's clicks (in the corner of
\* the zone, just left of it, just below it, far from it) and the modes of
\* the clicked node.
NodeSize == <<100, 40>>
MousePositions == {<<70, 5>>, <<69, 5>>, <<70, 6>>, <<10, 20>>}
MouseModes == {"ON_TRIGGER", "ALWAYS"}
InAndOut == {<<70, 5>>, <<10, 20>>}
ZoneWidth == 30
ZoneHeight == 5

\* pos[0] >= this.size[0] - 30 && pos[1] <= 5
HotZone_Strict(pos) == pos[1] > NodeSize[1] - ZoneWidth /\ pos[2] < ZoneHeight

HotZone(pos) == pos[1] >= NodeSize[1] - ZoneWidth /\ pos[2] <= ZoneHeight

\* onMouseDown(): the breakpoint hot zone of a node drawn in mode ON_TRIGGER.
onMouseDown(S, n, collapsed, mode, pos) ==
    IF collapsed THEN S
    ELSE IF mode # "ON_TRIGGER" THEN S
    ELSE IF ~HotZone(pos) THEN S
    ELSE IF S.pausedOnBreakPoint[n]
         THEN ResumeExecution(S)
         ELSE [S EXCEPT !.hasBeakPoint[n] = ~S.hasBeakPoint[n]]

\* ---------------------------------------------- graph execution: actions
InitExec ==
    /\ hasPaused = FALSE
    /\ PausedNode = Null
    /\ hasBeakPoint = [n \in Nodes |-> FALSE]
    /\ pausedOnBreakPoint = [n \in Nodes |-> FALSE]
    /\ resumeFn = [n \in Nodes |-> Null]
    /\ isExecuting = [n \in Nodes |-> FALSE]
    /\ acts = [a \in Slots |-> FreeAct]
    /\ mq = <<>>
    /\ ev = NoEv

CallOnExecute(n) ==
    /\ FreeSlots(St) # {}
    /\ \E o \in Outcomes :
        Apply(onExecute(Begin("onExecute", n, Null), n, NewSlot(St), o))

CallTriggerSlot(n) ==
    /\ FreeSlots(St) # {}
    /\ Apply(triggerSlot(Begin("triggerSlot", n, Null), n, NewSlot(St)))

CallResume(n) ==
    /\ n \in Nodes
    /\ Apply(resume(Begin("resume", n, Null), n))

CallOnStop(n) ==
    /\ n \in Nodes
    /\ Apply(onStop(Begin("onStop", n, Null), n))

CallResumeExecution ==
    /\ TRUE
    /\ Apply(ResumeExecution(Begin("ResumeExecution", Null, Null)))

CallOnMouseDown(n) ==
    /\ n \in Nodes
    /\ \E collapsed \in BOOLEAN, mode \in MouseModes, pos \in InAndOut :
        Apply(onMouseDown(Begin("onMouseDown", n, Null), n, collapsed, mode, pos))

\* The promise returned by execute() settles.
ExecuteSettles(a) ==
    /\ acts[a].pc = "executing"
    /\ acts[a].prom = "pending"
    /\ \E r \in {"resolved", "rejected"} :
        Apply([Begin("settle", acts[a].node, a)
                  EXCEPT !.acts[a].prom = r, !.mq = Append(mq, a)])

\* The next continuation of the microtask queue runs to its next await.
RunMicrotask ==
    /\ mq # <<>>
    /\ LET a == Head(mq)
           S == [Begin("continue", acts[a].node, a) EXCEPT !.mq = Tail(mq)]
       IN \E o \in Outcomes :
           Apply(CASE acts[a].pc = "preWait"   -> PreWork(S, a, o)
                   [] acts[a].pc = "bpWait"    -> AfterBreakPoint(S, a, o)
                   [] acts[a].pc = "executing" -> AfterExecute(S, a)
                   [] acts[a].pc = "postWait"  -> PostWork(S, a)
                   [] acts[a].pc = "trigWait"  -> AfterTriggerWait(S, a))

\* ------------------------------------------------------- project import

NumEntries == 2

NodeIds == 1..NumEntries
NodeCats == {"mesh", "transform", "light", "camera"}

\* Entries of the given category, in the order of the project file.
RECURSIVE ListOf(_, _, _)
ListOf(P, cat, k) ==
    IF k > NumEntries THEN <<>>
    ELSE (IF P.cat[k] = cat THEN <<[cat |-> cat, id |-> k]>> ELSE <<>>)
         \o ListOf(P, cat, k + 1)

\* The lists of the project file (IProject): the node entries by category and
\* one material, texture, particle system and sound.
Lists(P) ==
    [meshes          |-> ListOf(P, "mesh", 1),
     transformNodes  |-> ListOf(P, "transform", 1),
     materials       |-> <<[cat |-> "material", id |-> Null]>>,
     textures        |-> <<[cat |-> "texture", id |-> Null]>>,
     lights          |-> ListOf(P, "light", 1),
     cameras         |-> ListOf(P, "camera", 1),
     particleSystems |-> <<[cat |-> "particleSystem", id |-> Null]>>,
     sounds          |-> <<[cat |-> "sound", id |-> Null]>>]

\* The order in which the loops of _ImportProject take the entries.
Order_LightsFirst(P) ==
    LET L == Lists(P)
    IN L.lights \o L.meshes \o L.transformNodes \o L.materials \o L.textures
       \o L.cameras \o L.particleSystems \o L.sounds

Order(P) ==
    LET L == Lists(P)
    IN L.meshes \o L.transformNodes \o L.materials \o L.textures
       \o L.lights \o L.cameras \o L.particleSystems \o L.sounds

Imp == [project |-> project, ipc |-> ipc, io |-> io, begun |-> begun, ended |-> ended,
        inScene |-> inScene, waiting |-> waiting, parent |-> parent,
        passDone |-> passDone, refresh |-> refresh]

ApplyImp(I) ==
    /\ project' = I.project
    /\ ipc' = I.ipc
    /\ io' = I.io
    /\ begun' = I.begun
    /\ ended' = I.ended
    /\ inScene' = I.inScene
    /\ waiting' = I.waiting
    /\ parent' = I.parent
    /\ passDone' = I.passDone
    /\ refresh' = I.refresh
    /\ UNCHANGED <<execVars, conVars, widVars, astVars, sbxVars, expVars, mouVars, rlVars, movVars>>

Op(at, pos) == [at |-> at, pos |-> pos]

\* await: the operation is started and _ImportProject continues when it settles.
Await(I, op) == [I EXCEPT !.io = @ \cup {op}, !.ipc = op]

\* The node parsed from an entry joins the scene with its serialized parent
\* id kept in metadata._waitingParentId.
ParseNode_ResolveNow(I, id) ==
    [I EXCEPT !.inScene = @ \cup {id},
              !.parent[id] = IF I.project.parentId[id] \in I.inScene
                             THEN I.project.parentId[id] ELSE Null]

ParseNode(I, id) ==
    [I EXCEPT !.inScene = @ \cup {id},
              !.waiting[id] = I.project.parentId[id]]

\* scene.getNodeByID(id) ?? scene.getTransformNodeByID(id)
getNodeByID(I, id) == IF id \in I.inScene THEN id ELSE Null

\* _SetWaitingParent(n)
SetWaitingParent(I, n) ==
    IF I.waiting[n] = Null THEN I
    ELSE [I EXCEPT !.parent[n] = getNodeByID(I, I.waiting[n]),
                   !.waiting[n] = Null]

\* The nodes of the scene in the order of the parent-id pass: meshes, lights,
\* cameras, transform nodes.
RECURSIVE SceneList(_, _, _)
SceneList(I, cat, k) ==
    IF k > NumEntries THEN <<>>
    ELSE (IF k \in I.inScene /\ I.project.cat[k] = cat THEN <<k>> ELSE <<>>)
         \o SceneList(I, cat, k + 1)

RECURSIVE ForEachSetWaitingParent(_, _)
ForEachSetWaitingParent(I, list) ==
    IF list = <<>> THEN I
    ELSE ForEachSetWaitingParent(SetWaitingParent(I, Head(list)), Tail(list))

\* _ImportProject, lines 312-321: the parent ids, then the refresh.
Finish(I) ==
    LET list == SceneList(I, "mesh", 1) \o SceneList(I, "light", 1)
                \o SceneList(I, "camera", 1) \o SceneList(I, "transform", 1)
    IN [ForEachSetWaitingParent(I, list)
          EXCEPT !.passDone = TRUE, !.refresh = "registered", !.ipc = Op("done", 0)]

\* _ImportProject throws: ImportProject catches and refreshes the editor.
Fail(I) == [I EXCEPT !.refresh = "called", !.ipc = Op("failed", 0)]

\* The head of the loops: the next entry is read, or, after the last one,
\* the rendering pipelines are configured and the assets cache is looked up.
StartEntry(I, pos) ==
    IF pos > Len(Order(I.project))
    THEN Await(I, Op("cachePath", 0))
    ELSE Await([I EXCEPT !.begun = @ \cup {pos}], Op("read", pos))

EndEntry(I, pos) == StartEntry([I EXCEPT !.ended = @ \cup {pos}], pos + 1)

\* ImportMesh(): await SceneLoader.ImportMeshAsync(...)
ImportMesh_NotAwaited(I, pos) ==
    StartEntry([I EXCEPT !.io = @ \cup {Op("import", pos)}], pos + 1)

ImportMesh(I, pos) == Await(I, Op("import", pos))

\* The continuation of await readJSON(...) of an entry: the catch block of
\* the loop logs a failed read or parse and the loop goes on.
AfterRead(I, pos, ok, parsed, shadow) ==
    LET e == Order(I.project)[pos]
    IN IF ~ok THEN EndEntry(I, pos)
       ELSE CASE e.cat = "mesh" -> ImportMesh(I, pos)
              [] e.cat \in {"transform", "camera"} ->
                    EndEntry(IF parsed THEN ParseNode(I, e.id) ELSE I, pos)
              [] e.cat = "light" ->
                    IF ~parsed THEN EndEntry(I, pos)
                    ELSE IF shadow THEN Await(ParseNode(I, e.id), Op("shadow", pos))
                    ELSE EndEntry(ParseNode(I, e.id), pos)
              [] OTHER -> EndEntry(I, pos)

\* The continuation of ImportMesh.
AfterImport(I, pos, ok) ==
    EndEntry(IF ok THEN ParseNode(I, Order(I.project)[pos].id) ELSE I, pos)

\* An operation nothing awaits settles: its result is handled on its own.
Detached(I, op, ok) ==
    IF op.at = "import"
    THEN [(IF ok THEN ParseNode(I, Order(I.project)[op.pos].id) ELSE I)
            EXCEPT !.ended = @ \cup {op.pos}]
    ELSE I

\* The awaited operation settles and _ImportProject runs to its next await.
Continue(I, op, ok, parsed, shadow, exists) ==
    CASE op.at = "project"   -> IF ok THEN StartEntry(I, 1) ELSE Fail(I)
      [] op.at = "read"      -> AfterRead(I, op.pos, ok, parsed, shadow)
      [] op.at = "import"    -> AfterImport(I, op.pos, ok)
      [] op.at = "shadow"    -> EndEntry(I, op.pos)
      [] op.at = "cachePath" -> IF ~ok THEN Fail(I)
                                ELSE IF exists THEN Await(I, Op("cacheRead", 0))
                                ELSE Finish(I)
      [] op.at = "cacheRead" -> IF ok THEN Finish(I) ELSE Fail(I)

Projects ==
    {P \in [cat : [NodeIds -> NodeCats], parentId : [NodeIds -> NodeIds \cup {Null}]] :
        \A k \in NodeIds : P.parentId[k] # k}

InitImp ==
    /\ project \in Projects
    /\ ipc = Op("idle", 0)
    /\ io = {}
    /\ begun = {}
    /\ ended = {}
    /\ inScene = {}
    /\ waiting = [k \in NodeIds |-> Null]
    /\ parent = [k \in NodeIds |-> Null]
    /\ passDone = FALSE
    /\ refresh = "none"

IdleImp ==
    /\ project = [cat |-> [k \in NodeIds |-> "mesh"], parentId |-> [k \in NodeIds |-> Null]]
    /\ ipc = Op("idle", 0)
    /\ io = {}
    /\ begun = {}
    /\ ended = {}
    /\ inScene = {}
    /\ waiting = [k \in NodeIds |-> Null]
    /\ parent = [k \in NodeIds |-> Null]
    /\ passDone = FALSE
    /\ refresh = "none"

\* ImportProject(editor, path): await readJSON(path)
ImportProject ==
    /\ ipc.at = "idle"
    /\ ApplyImp(Await(Imp, Op("project", 0)))

\* A read or a load settles.
Settle ==
    \E op \in io, ok \in BOOLEAN, parsed \in BOOLEAN, shadow \in BOOLEAN, exists \in BOOLEAN :
        LET I == [Imp EXCEPT !.io = @ \ {op}]
        IN ApplyImp(IF op = ipc THEN Continue(I, op, ok, parsed, shadow, exists)
                    ELSE Detached(I, op, ok))

\* The scene becomes ready: the registered refresh is called.
SceneReady ==
    /\ refresh = "registered"
    /\ ApplyImp([Imp EXCEPT !.refresh = "called"])

\* ----------------------------------------------------- node connections

NumGraphNodes == 3

GNodes == 1..NumGraphNodes
OutTypes == {"", "number", "string"}
EVENT == "event"

\* An input with nothing plugged in (link: null).
NoLink == [origin |-> Null, type |-> ""]

\* The input slots the nodes are built with: generic or typed, with or without
\* linkedOutput ("out" is the node's output, "other" names no output).
InputSlots ==
    {[type |-> "", linkedOutput |-> "out"],
     [type |-> "number", linkedOutput |-> "out"],
     [type |-> "", linkedOutput |-> "other"],
     [type |-> "", linkedOutput |-> ""],
     [type |-> EVENT, linkedOutput |-> ""]}

Con == [slots |-> slots, linkRule |-> linkRule, cmode |-> cmode,
        outType |-> outType, inLink |-> inLink]

ApplyCon(G) ==
    /\ slots' = G.slots
    /\ linkRule' = G.linkRule
    /\ cmode' = G.cmode
    /\ outType' = G.outType
    /\ inLink' = G.inLink
    /\ UNCHANGED <<execVars, impVars, widVars, astVars, sbxVars, expVars, mouVars, rlVars, movVars>>

\* LiteGraph.isValidConnection: a generic type fits every type.
isValidConnection(a, b) == a = "" \/ b = "" \/ a = b

\* The type the library gives a new link: the input's type, or (later
\* versions of the library) the output's type when the input is generic.
LinkType(G, inT, outT) ==
    IF G.linkRule = "input" \/ inT # "" THEN inT ELSE outT

\* this.outputs.findIndex((o) => o.name === input.linkedOutput) !== -1
HasOutput(name) == name = "out"

\* getConnectedNodesFromOutput(outputId): the nodes whose input is linked to
\* the output of n.
RECURSIVE getConnectedNodesFromOutput(_, _, _)
getConnectedNodesFromOutput(G, n, k) ==
    IF k > NumGraphNodes THEN <<>>
    ELSE (IF G.inLink[k] # NoLink /\ G.inLink[k].origin = n THEN <<k>> ELSE <<>>)
         \o getConnectedNodesFromOutput(G, n, k + 1)

RECURSIVE connect(_, _, _)
RECURSIVE disconnectInput(_, _)
RECURSIVE onConnectionsChange(_, _, _, _, _)
RECURSIVE ConnectEach(_, _, _)

\* connected.forEach((c) => this.connect(outputId, c.node, c.inputId))
ConnectEach(G, n, list) ==
    IF list = <<>> THEN G
    ELSE ConnectEach(connect(G, n, Head(list)), n, Tail(list))

\* updateConnectedNodesFromOutput(outputId)
updateConnectedNodesFromOutput_Nothing(G, n) == G

updateConnectedNodesFromOutput(G, n) ==
    ConnectEach(G, n, getConnectedNodesFromOutput(G, n, 1))

\* The output-type part of onConnectionsChange (lines 226-236).
ChangeOutputType(G, n, type, link) ==
    IF link # NoLink /\ link.type # "" /\ type = "INPUT" /\ G.slots[n].linkedOutput # ""
       /\ HasOutput(G.slots[n].linkedOutput)
    THEN updateConnectedNodesFromOutput(
             [G EXCEPT !.outType[n] = G.outType[link.origin]], n)
    ELSE G

\* onConnectionsChange(type, slot, added, link, input)
onConnectionsChange_AlwaysTrigger(G, n, type, added, link) ==
    IF G.cmode[n] = "NEVER" THEN G
    ELSE LET G1 == ChangeOutputType(G, n, type, link)
         IN IF link # NoLink /\ type = "INPUT" /\ G.slots[n].type = EVENT
            THEN [G1 EXCEPT !.cmode[n] = "ON_TRIGGER"]
            ELSE G1

onConnectionsChange(G, n, type, added, link) ==
    IF G.cmode[n] = "NEVER" THEN G
    ELSE LET G1 == ChangeOutputType(G, n, type, link)
         IN IF link # NoLink /\ type = "INPUT" /\ G.slots[n].type = EVENT
            THEN [G1 EXCEPT !.cmode[n] = IF added THEN "ON_TRIGGER" ELSE "ALWAYS"]
            ELSE G1

\* LGraphNode.disconnectInput of the graph library: the link is removed, then
\* both ends are told.
disconnectInput(G, t) ==
    LET link == G.inLink[t]
    IN IF link = NoLink THEN G
       ELSE onConnectionsChange(
                onConnectionsChange([G EXCEPT !.inLink[t] = NoLink], t, "INPUT", FALSE, link),
                link.origin, "OUTPUT", FALSE, link)

\* LGraphNode.connect of the graph library: a link already plugged in the
\* input is removed, types that do not fit refuse the connection, then the
\* new link is made and both ends are told.
connect(G, o, t) ==
    LET G1 == disconnectInput(G, t)
        link == [origin |-> o, type |-> LinkType(G1, G1.slots[t].type, G1.outType[o])]
    IN IF ~isValidConnection(G1.outType[o], G1.slots[t].type) THEN G1
       ELSE onConnectionsChange(
                onConnectionsChange([G1 EXCEPT !.inLink[t] = link], o, "OUTPUT", TRUE, link),
                t, "INPUT", TRUE, link)

InitCon ==
    /\ slots \in [GNodes -> InputSlots]
    /\ slots[1] = [type |-> "", linkedOutput |-> ""]
    /\ linkRule \in {"input", "inputOrOutput"}
    /\ cmode \in [GNodes -> {"ALWAYS", "NEVER"}]
    /\ cmode[1] = "ALWAYS"
    /\ outType \in [GNodes -> OutTypes]
    /\ \A n \in GNodes : n > 1 => outType[n] = "string"
    /\ inLink = [n \in GNodes |-> NoLink]

IdleCon ==
    /\ slots = [n \in GNodes |-> [type |-> "", linkedOutput |-> ""]]
    /\ linkRule = "input"
    /\ cmode = [n \in GNodes |-> "ALWAYS"]
    /\ outType = [n \in GNodes |-> ""]
    /\ inLink = [n \in GNodes |-> NoLink]

\* The user drags a link from the output of o to the input of t.
UserConnect(o, t) ==
    /\ o < t
    /\ ApplyCon(connect(Con, o, t))

\* The user unplugs the input of t.
UserDisconnect(t) ==
    /\ inLink[t] # NoLink
    /\ ApplyCon(disconnectInput(Con, t))

\* ------------------------------------------------------- widget changes
\* One widget added with addWidget(type, name, value, callback). Its callback
\* writes the property of the widget's name, the property the 0 ms timer of
\* addWidget reads. Time is counted in milliseconds; a timer runs when it is
\* due, and the 0 ms timer runs before the user can touch the widget.

MaxEntries == 2
DebounceMs == 500

Values == {"0", "1", "2"}
Undefined == "undefined"
Delays == {250, 500}

NoBurst == [active |-> FALSE, before |-> Undefined, last |-> Undefined, idle |-> 0]

Wid == [prop |-> prop, wvalue |-> wvalue, initialValue |-> initialValue,
        callingWidgetCallback |-> callingWidgetCallback, timeout |-> timeout,
        timers |-> timers, stack |-> stack, position |-> position]

ApplyWid(W) ==
    /\ prop' = W.prop
    /\ wvalue' = W.wvalue
    /\ initialValue' = W.initialValue
    /\ callingWidgetCallback' = W.callingWidgetCallback
    /\ timeout' = W.timeout
    /\ timers' = W.timers
    /\ stack' = W.stack
    /\ position' = W.position
    /\ UNCHANGED <<execVars, impVars, conVars, astVars, sbxVars, expVars, mouVars, rlVars, movVars>>

\* The callback given to addWidget.
originalCallback(W, v) == [W EXCEPT !.prop = v]

\* clearTimeout(timeout): the debounce timer, if it is still pending, is
\* dropped.
clearTimeout(W) ==
    [W EXCEPT !.timers = SelectSeq(W.timers, LAMBDA t : t.fn # "debounce")]

\* The callback addWidget gives to the widget (lines 296-328).
callback_NotGuarded(W, v) ==
    LET W1 == originalCallback(W, v)
        W2 == IF W1.timeout THEN clearTimeout(W1) ELSE W1
    IN [W2 EXCEPT !.timeout = TRUE,
                  !.timers = Append(W2.timers,
                      [due |-> DebounceMs, fn |-> "debounce", v |-> v])]

callback(W, v) ==
    LET W1 == originalCallback(W, v)
    IN IF W1.callingWidgetCallback THEN W1
       ELSE LET W2 == IF W1.timeout THEN clearTimeout(W1) ELSE W1
            IN [W2 EXCEPT !.timeout = TRUE,
                          !.timers = Append(W2.timers,
                              [due |-> DebounceMs, fn |-> "debounce", v |-> v])]

\* The name of the widget, and a name no widget of the node has.
WidgetName == "value"
PropertyNames == {"value", "other"}

\* propertyChanged(name, value): the first widget of that name, if any.
propertyChanged(W, name, value) ==
    IF name # WidgetName THEN W
    ELSE LET W1 == [W EXCEPT !.wvalue = value, !.callingWidgetCallback = TRUE]
         IN [callback(W1, value) EXCEPT !.callingWidgetCallback = FALSE]

\* The undo and redo functions of a pushed entry (lines 317-324).
undo(W, e) == propertyChanged(originalCallback(W, e.oldValue), WidgetName, e.oldValue)
redo(W, e) == propertyChanged(originalCallback(W, e.newValue), WidgetName, e.newValue)

\* undoRedo.push(element): the entries that were undone are dropped, the
\* element is stacked and its redo function is called.
push(W, e) ==
    LET kept == SubSeq(W.stack, 1, W.position)
    IN redo([W EXCEPT !.stack = Append(kept, e), !.position = Len(kept) + 1], e)

InitWid ==
    /\ prop \in Values
    /\ wvalue = prop
    /\ initialValue = Undefined
    /\ callingWidgetCallback = FALSE
    /\ timeout = FALSE
    /\ timers = <<[due |-> 0, fn |-> "initial", v |-> Undefined]>>
    /\ stack = <<>>
    /\ position = 0
    /\ burst = NoBurst
    /\ wev = "none"

IdleWid ==
    /\ prop = "0"
    /\ wvalue = "0"
    /\ initialValue = "0"
    /\ callingWidgetCallback = FALSE
    /\ timeout = FALSE
    /\ timers = <<>>
    /\ stack = <<>>
    /\ position = 0
    /\ burst = NoBurst
    /\ wev = "none"

\* The 0 ms timer of addWidget: initialValue = this.properties[name].
InitialValueTimer ==
    /\ timers # <<>> /\ Head(timers).fn = "initial" /\ Head(timers).due = 0
    /\ ApplyWid([Wid EXCEPT !.initialValue = prop, !.timers = Tail(timers)])
    /\ wev' = "initial"
    /\ UNCHANGED burst

\* The user changes the widget: the graph library sets w.value and calls the
\* widget's callback.
WidgetChanged(v) ==
    /\ initialValue # Undefined
    /\ Len(stack) < MaxEntries
    /\ ApplyWid(callback([Wid EXCEPT !.wvalue = v], v))
    /\ burst' = [active |-> TRUE,
                 before |-> IF burst.active THEN burst.before ELSE prop,
                 last |-> v, idle |-> 0]
    /\ wev' = "change"

\* Time passes, no further than the next timer.
TimePasses(d) ==
    /\ timers # <<>>
    /\ \A i \in 1..Len(timers) : d <= timers[i].due
    /\ ApplyWid([Wid EXCEPT !.timers =
                    [i \in 1..Len(timers) |-> [timers[i] EXCEPT !.due = @ - d]]])
    /\ burst' = [burst EXCEPT !.idle = @ + d]
    /\ wev' = "wait"

\* The 500 ms timer of the callback (lines 306-327).
DebounceTimer ==
    /\ timers # <<>> /\ Head(timers).fn = "debounce" /\ Head(timers).due = 0
    /\ LET oldValue == initialValue
           newValue == Head(timers).v
       IN ApplyWid(push([Wid EXCEPT !.initialValue = newValue, !.timers = Tail(timers)],
                        [oldValue |-> oldValue, newValue |-> newValue]))
    /\ burst' = [burst EXCEPT !.active = FALSE]
    /\ wev' = "push"

\* propertyChanged is called from elsewhere in the editor.
PropertyChanged(name, value) ==
    /\ initialValue # Undefined
    /\ ApplyWid(propertyChanged(Wid, name, value))
    /\ wev' = "propertyChanged"
    /\ UNCHANGED burst

\* The user undoes the last entry.
Undo ==
    /\ position > 0
    /\ ApplyWid(undo([Wid EXCEPT !.position = position - 1], stack[position]))
    /\ wev' = "undo"
    /\ UNCHANGED burst

\* The user redoes the entry that was undone last.
Redo ==
    /\ position < Len(stack)
    /\ ApplyWid(redo([Wid EXCEPT !.position = position + 1], stack[position + 1]))
    /\ wev' = "redo"
    /\ UNCHANGED burst

\* ------------------------------------------------- assets browser: rename
\* A file is known by its extension, as written in its name.

Extensions == {".png", ".PNG", ".json", ".txt"}

\* String.toLowerCase on the extensions of the model.
toLowerCase(e) == IF e = ".PNG" THEN ".png" ELSE e

\* The lists of move handlers the editor may have registered, each handler
\* with the extensions it declares.
Registries ==
    {<<>>,
     <<[extensions |-> {".png"}]>>,
     <<[extensions |-> {".json"}], [extensions |-> {".png", ".json"}]>>,
     <<[extensions |-> {".png", ".txt"}], [extensions |-> {".png"}]>>}

\* _ItemMoveHandlers.find((h) => h.extensions.indexOf(extension) !== -1):
\* the index of the first handler declaring the extension, Null if none.
RECURSIVE find(_, _, _)
find(reg, extension, k) ==
    IF k > Len(reg) THEN Null
    ELSE IF extension \in reg[k].extensions THEN k
    ELSE find(reg, extension, k + 1)

IdleRename == [pc |-> "idle", ext |-> ".txt", existed |-> FALSE, handler |-> Null,
               handling |-> "none", moving |-> "none", refreshed |-> FALSE]

\* renameFile up to its first await: await pathExists(destination).
renameFile(ext) == [IdleRename EXCEPT !.pc = "pathExists", !.ext = ext]

\* await move(absolutePath, destination)
StartMove(R) == [R EXCEPT !.pc = "move", !.moving = "running"]

\* renameFile after pathExists has answered (lines 753-761).
AfterPathExists_NotAwaited(R, reg, exists) ==
    IF exists THEN [R EXCEPT !.pc = "done", !.existed = TRUE]
    ELSE LET handler == find(reg, toLowerCase(R.ext), 1)
         IN IF handler # Null
            THEN StartMove([R EXCEPT !.handler = handler, !.handling = "running"])
            ELSE StartMove(R)

AfterPathExists(R, reg, exists) ==
    IF exists THEN [R EXCEPT !.pc = "done", !.existed = TRUE]
    ELSE LET handler == find(reg, toLowerCase(R.ext), 1)
         IN IF handler # Null
            THEN [R EXCEPT !.pc = "handler", !.handler = handler, !.handling = "running"]
            ELSE StartMove(R)

\* handler.moveFile settles; renameFile goes on if it awaits it (lines 759-762).
AfterHandler(R, ok) ==
    LET R1 == [R EXCEPT !.handling = IF ok THEN "done" ELSE "failed"]
    IN IF R.pc # "handler" THEN R1
       ELSE IF ok THEN StartMove(R1)
       ELSE [R1 EXCEPT !.pc = "failed"]

\* move settles; renameFile goes on (lines 762-765).
AfterMove(R, ok) ==
    IF ok THEN [R EXCEPT !.pc = "done", !.moving = "done", !.refreshed = TRUE]
    ELSE [R EXCEPT !.pc = "failed", !.moving = "failed"]

InitAst ==
    /\ registry \in Registries
    /\ rn = IdleRename

IdleAst ==
    /\ registry = <<>>
    /\ rn = IdleRename

CallRenameFile(ext) ==
    /\ rn.pc \in {"idle", "done", "failed"}
    /\ rn.handling # "running"
    /\ rn' = renameFile(ext)
    /\ UNCHANGED registry
    /\ UNCHANGED <<execVars, impVars, conVars, widVars, sbxVars, expVars, mouVars, rlVars, movVars>>

PathExistsSettles(exists) ==
    /\ rn.pc = "pathExists"
    /\ rn' = AfterPathExists(rn, registry, exists)
    /\ UNCHANGED registry
    /\ UNCHANGED <<execVars, impVars, conVars, widVars, sbxVars, expVars, mouVars, rlVars, movVars>>

HandlerSettles(ok) ==
    /\ rn.handling = "running"
    /\ rn' = AfterHandler(rn, ok)
    /\ UNCHANGED registry
    /\ UNCHANGED <<execVars, impVars, conVars, widVars, sbxVars, expVars, mouVars, rlVars, movVars>>

MoveSettles(ok) ==
    /\ rn.moving = "running"
    /\ rn' = AfterMove(rn, ok)
    /\ UNCHANGED registry
    /\ UNCHANGED <<execVars, impVars, conVars, widVars, sbxVars, expVars, mouVars, rlVars, movVars>>

\* ------------------------------------------------------------------ sandbox

MaxMessages == 3

\* A field that is not there (undefined).
Absent == "absent"

\* The messages: without data, or with an object whose fn, args and id may
\* be missing; "Unknown" names no function of the sandbox.
Messages ==
    {[data |-> Absent, fn |-> Absent, args |-> Absent, id |-> Absent]} \cup
    {[data |-> "object", fn |-> f, args |-> a, id |-> i] :
        f \in {Absent, "GetInspectorValues", "Unknown"},
        a \in {Absent, "args"},
        i \in {Absent, "1", "2"}}

Truthy(x) == x # Absent

\* How the awaited call ends: it returns, it throws an Error, it throws a
\* value that is not an Error ("text"), or it throws null or undefined.
CallOutcomes == {"returns", "throwsError", "throwsValue", "throwsNull"}

\* The listener up to its await (lines 12-22).
listener(S, m) ==
    IF ~Truthy(m.data) THEN S
    ELSE IF ~Truthy(m.fn) \/ ~Truthy(m.args) \/ ~Truthy(m.id) THEN S
    ELSE [S EXCEPT !.calls = Append(S.calls, [fn |-> m.fn, id |-> m.id]),
                   !.requests = Append(S.requests, [fn |-> m.fn, id |-> m.id])]

Remove(seq, k) == SubSeq(seq, 1, k - 1) \o SubSeq(seq, k + 1, Len(seq))

\* parent.postMessage(message)
postMessage(S, message) == [S EXCEPT !.posted = Append(S.posted, message)]

\* The listener after its await (lines 22-26): e.message is the message of an
\* Error, undefined on another value, and cannot be read on null or undefined.
AfterCall(S, k, outcome) ==
    LET c == S.calls[k]
        S1 == [S EXCEPT !.calls = Remove(S.calls, k)]
    IN CASE outcome = "returns" ->
                postMessage(S1, [fn |-> c.fn, id |-> c.id, result |-> "result", error |-> Absent])
         [] outcome = "throwsError" ->
                postMessage(S1, [fn |-> c.fn, id |-> c.id, result |-> Absent, error |-> "message"])
         [] outcome = "throwsValue" ->
                postMessage(S1, [fn |-> c.fn, id |-> c.id, result |-> Absent, error |-> "undefined"])
         [] OTHER -> S1

Sbx == [calls |-> calls, posted |-> posted, requests |-> requests]

ApplySbx(S) ==
    /\ calls' = S.calls
    /\ posted' = S.posted
    /\ requests' = S.requests
    /\ UNCHANGED <<execVars, impVars, conVars, widVars, astVars, expVars, mouVars, rlVars, movVars>>

InitSbx ==
    /\ calls = <<>>
    /\ posted = <<>>
    /\ requests = <<>>

\* The window receives a message.
Message(m) ==
    /\ Len(requests) < MaxMessages
    /\ ApplySbx(listener(Sbx, m))

\* An awaited call ends. A function the sandbox does not have cannot return.
CallSettles(k, outcome) ==
    /\ k \in 1..Len(calls)
    /\ calls[k].fn = "Unknown" => outcome = "throwsError"
    /\ ApplySbx(AfterCall(Sbx, k, outcome))

\* ---------------------------------------------------------- material export
\* The serialized materials are flattened: each block carries what the loop
\* over its material tests ("node": a NodeMaterial found in the scene,
\* "unknown": a NodeMaterial the scene does not have, "standard": another
\* custom type).

NumBlocks == 2

BlockIds == 1..NumBlocks

DataUri == "data:image"
FileNames == <<"files/0", "files/1", "files/2", "files/3">>
FileName(index) == FileNames[index + 1]

\* The blocks of the model: one of each case the loop tells apart.
BlockKinds ==
    {[material |-> m, customType |-> "BABYLON.TextureBlock", name |-> DataUri,
      url |-> "", live |-> TRUE, forcedExtension |-> FALSE] : m \in {"unknown", "standard"}}
    \cup
    {[material |-> "node", customType |-> "BABYLON.InputBlock", name |-> DataUri,
      url |-> "", live |-> TRUE, forcedExtension |-> FALSE],
     [material |-> "node", customType |-> "BABYLON.TextureBlock", name |-> "",
      url |-> "", live |-> TRUE, forcedExtension |-> FALSE],
     [material |-> "node", customType |-> "BABYLON.TextureBlock", name |-> "wood.png",
      url |-> "wood.png", live |-> TRUE, forcedExtension |-> FALSE],
     [material |-> "node", customType |-> "BABYLON.TextureBlock", name |-> DataUri,
      url |-> "", live |-> FALSE, forcedExtension |-> FALSE],
     [material |-> "node", customType |-> "BABYLON.TextureBlock", name |-> DataUri,
      url |-> "", live |-> TRUE, forcedExtension |-> FALSE],
     [material |-> "node", customType |-> "BABYLON.ReflectionBlock", name |-> DataUri,
      url |-> "", live |-> TRUE, forcedExtension |-> FALSE],
     [material |-> "node", customType |-> "BABYLON.ReflectionTextureBlock", name |-> DataUri,
      url |-> "", live |-> TRUE, forcedExtension |-> TRUE]}

NoExport == [pc |-> "none", index |-> 0]

Exp == [blocks |-> blocks, textureIndex |-> textureIndex, exports |-> exports,
        files |-> files, written |-> written, xpc |-> xpc, returned |-> returned]

ApplyExp(X) ==
    /\ blocks' = X.blocks
    /\ textureIndex' = X.textureIndex
    /\ exports' = X.exports
    /\ files' = X.files
    /\ written' = X.written
    /\ xpc' = X.xpc
    /\ returned' = X.returned
    /\ UNCHANGED <<execVars, impVars, conVars, widVars, astVars, sbxVars, mouVars, rlVars, movVars>>

\* The body of the loops for one block (lines 411-437).
VisitBlock_SameIndex(X, k) ==
    LET b == X.blocks[k]
    IN IF b.material # "node" THEN X
       ELSE IF b.customType \notin {"BABYLON.TextureBlock", "BABYLON.ReflectionBlock",
                                    "BABYLON.ReflectionTextureBlock"} \/ b.name = "" THEN X
       ELSE IF b.name # DataUri THEN X
       ELSE IF b.customType = "BABYLON.TextureBlock"
            THEN IF ~b.live THEN X
                 ELSE [X EXCEPT !.blocks[k].url = b.name,
                                !.blocks[k].name = "editorName",
                                !.exports[k] = [pc |-> "convert", index |-> X.textureIndex]]
       ELSE IF ~b.forcedExtension
            THEN [X EXCEPT !.blocks[k].url = "data:random"]
       ELSE [X EXCEPT !.exports[k] = [pc |-> "write", index |-> X.textureIndex]]

VisitBlock(X, k) ==
    LET b == X.blocks[k]
    IN IF b.material # "node" THEN X
       ELSE IF b.customType \notin {"BABYLON.TextureBlock", "BABYLON.ReflectionBlock",
                                    "BABYLON.ReflectionTextureBlock"} \/ b.name = "" THEN X
       ELSE IF b.name # DataUri THEN X
       ELSE IF b.customType = "BABYLON.TextureBlock"
            THEN IF ~b.live THEN X
                 ELSE [X EXCEPT !.blocks[k].url = b.name,
                                !.blocks[k].name = "editorName",
                                !.exports[k] = [pc |-> "convert", index |-> X.textureIndex],
                                !.textureIndex = @ + 1]
       ELSE IF ~b.forcedExtension
            THEN [X EXCEPT !.blocks[k].url = "data:random"]
       ELSE [X EXCEPT !.exports[k] = [pc |-> "write", index |-> X.textureIndex],
                      !.textureIndex = @ + 1]

RECURSIVE VisitBlocks(_, _)
VisitBlocks(X, k) ==
    IF k > NumBlocks THEN X ELSE VisitBlocks(VisitBlock(X, k), k + 1)

\* await Promise.all(promises); return files (lines 440-442): the call
\* resolves once every export is over, and is rejected as soon as one fails.
PromiseAll_NoWait(X) ==
    IF X.xpc # "all" THEN X
    ELSE [X EXCEPT !.xpc = "resolved", !.returned = X.files]

PromiseAll(X) ==
    IF X.xpc # "all" THEN X
    ELSE IF \E k \in BlockIds : X.exports[k].pc = "failed" THEN [X EXCEPT !.xpc = "rejected"]
    ELSE IF \A k \in BlockIds : X.exports[k].pc \in {"none", "done", "nobuffer"}
         THEN [X EXCEPT !.xpc = "resolved", !.returned = X.files]
    ELSE X

\* ExportSerializedNodeMaterialsTextures up to its await.
ExportSerializedNodeMaterialsTextures(X) ==
    PromiseAll([VisitBlocks(X, 1) EXCEPT !.xpc = "all"])

\* _ExportSerializedTexture after ConvertTextureToBuffer (lines 450-453).
AfterConvert(X, k, buffer) ==
    CASE buffer = "buffer" -> [X EXCEPT !.exports[k].pc = "write"]
      [] buffer = "null" -> PromiseAll([X EXCEPT !.exports[k].pc = "nobuffer"])
      [] OTHER -> PromiseAll([X EXCEPT !.exports[k].pc = "failed"])

\* _ExportSerializedTexture and _ExportSerializedCubeTexture after writeFile
\* (lines 454-459 and 469-473).
AfterWrite(X, k, ok) ==
    LET name == FileName(X.exports[k].index)
    IN IF ok
       THEN PromiseAll([X EXCEPT !.exports[k].pc = "done",
                                 !.written = @ \cup {name},
                                 !.files = Append(@, name),
                                 !.blocks[k].url = name,
                                 !.blocks[k].name = name])
       ELSE PromiseAll([X EXCEPT !.exports[k].pc = "failed"])

InitExp ==
    /\ blocks \in [BlockIds -> BlockKinds]
    /\ textureIndex = 0
    /\ exports = [k \in BlockIds |-> NoExport]
    /\ files = <<>>
    /\ written = {}
    /\ xpc = "idle"
    /\ returned = <<>>

IdleExp ==
    /\ blocks = [k \in BlockIds |->
                    [material |-> "standard", customType |-> "BABYLON.TextureBlock",
                     name |-> DataUri, url |-> "", live |-> TRUE, forcedExtension |-> FALSE]]
    /\ textureIndex = 0
    /\ exports = [k \in BlockIds |-> NoExport]
    /\ files = <<>>
    /\ written = {}
    /\ xpc = "idle"
    /\ returned = <<>>

CallExport ==
    /\ xpc = "idle"
    /\ ApplyExp(ExportSerializedNodeMaterialsTextures(Exp))

ConvertSettles(k, buffer) ==
    /\ exports[k].pc = "convert"
    /\ ApplyExp(AfterConvert(Exp, k, buffer))

WriteSettles(k, ok) ==
    /\ exports[k].pc = "write"
    /\ ApplyExp(AfterWrite(Exp, k, ok))

\* ------------------------------------------------------------ mouse clicks

NoClick == [collapsed |-> FALSE, mode |-> "ALWAYS", pos |-> <<0, 0>>]

IdleMou == click = NoClick

\* onMouseDown, its arguments being recorded.
MouseDown(n) ==
    /\ n \in Nodes
    /\ \E collapsed \in BOOLEAN, mode \in MouseModes, pos \in MousePositions :
        /\ ApplyExec(onMouseDown(Begin("onMouseDown", n, Null), n, collapsed, mode, pos))
        /\ click' = [collapsed |-> collapsed, mode |-> mode, pos |-> pos]

\* -------------------------------------------------------- render list: model
\* render-list.tsx: the transfer component of a render target's render list.

NumMeshes == 3
MaxKeys == 2

\* scene.meshes, in order. The last mesh has the id of the first one; the
\* second one is an instance (it has a _masterMesh).
Meshes == 1..NumMeshes
SceneMeshes == [m \in Meshes |-> m]
Id(m) == IF m = NumMeshes THEN 1 ELSE m
IsInstance(m) == m = 2

\* The keys a transfer may carry; the last one is the id of no mesh.
Keys == 1..NumMeshes
Directions == {"right", "left"}
MoveKeys == UNION {[1..n -> Keys] : n \in 1..MaxKeys}

NoTransfer == [direction |-> "", moveKeys |-> <<>>]

\* scene.getMeshByID(k): the first mesh of that id, or null.
getMeshByID(k) ==
    IF \E i \in 1..Len(SceneMeshes) : Id(SceneMeshes[i]) = k
    THEN SceneMeshes[CHOOSE i \in 1..Len(SceneMeshes) :
             /\ Id(SceneMeshes[i]) = k
             /\ \A j \in 1..(i - 1) : Id(SceneMeshes[j]) # k]
    ELSE Null

\* list.indexOf(mesh), -1 when absent.
indexOf(list, mesh) ==
    IF \E i \in 1..Len(list) : list[i] = mesh
    THEN CHOOSE i \in 1..Len(list) :
             list[i] = mesh /\ \A j \in 1..(i - 1) : list[j] # mesh
    ELSE -1

\* list.splice(index, 1)
splice(list, index) ==
    [i \in 1..(Len(list) - 1) |-> IF i < index THEN list[i] ELSE list[i + 1]]

\* The body of the forEach of case "right" (lines 91-98).
IncludeKey_NoCheck(list, k) ==
    LET mesh == getMeshByID(k)
    IN IF mesh = Null THEN list ELSE Append(list, mesh)

IncludeKey(list, k) ==
    LET mesh == getMeshByID(k)
    IN IF mesh = Null THEN list
       ELSE IF indexOf(list, mesh) = -1 THEN Append(list, mesh) ELSE list

\* The body of the forEach of case "left" (lines 103-111).
ExcludeKey(list, k) ==
    LET mesh == getMeshByID(k)
    IN IF mesh = Null THEN list
       ELSE LET index == indexOf(list, mesh)
            IN IF index # -1 THEN splice(list, index) ELSE list

\* moveKeys.forEach, from key i on.
RECURSIVE ForEachKey(_, _, _, _)
ForEachKey(list, direction, moveKeys, i) ==
    IF i > Len(moveKeys) THEN list
    ELSE ForEachKey(IF direction = "right" THEN IncludeKey(list, moveKeys[i])
                    ELSE IF direction = "left" THEN ExcludeKey(list, moveKeys[i])
                    ELSE list,
                    direction, moveKeys, i + 1)

\* _getMeshes(): the meshes of the scene that are not instances.
NotInstance(m) == ~IsInstance(m)
getMeshes == SelectSeq(SceneMeshes, NotInstance)

\* A transfer item: its key is the id of the mesh, its title the name, which
\* tells the meshes apart.
Item(m) == [key |-> Id(m), title |-> m]

getIncludedMeshes(list) == [i \in 1..Len(list) |-> Item(list[i])]

getExcludedMeshes(list) ==
    LET NotListed(m) == indexOf(list, m) = -1
        out == SelectSeq(getMeshes, NotListed)
    IN [i \in 1..Len(out) |-> Item(out[i])]

\* The render lists the component can be built on: arrays without a mesh twice.
RenderLists ==
    {l \in UNION {[1..n -> Meshes] : n \in 0..NumMeshes} :
        \A i, j \in 1..Len(l) : i # j => l[i] # l[j]}

\* After the constructor (lines 44-51).
InitRl ==
    /\ renderList \in RenderLists
    /\ listIsNull = FALSE
    /\ includedMeshes = getIncludedMeshes(renderList)
    /\ excludedMeshes = getExcludedMeshes(renderList)
    /\ hasOnChange \in BOOLEAN
    /\ onChangeCalled = FALSE
    /\ transfer = NoTransfer

IdleRl ==
    /\ renderList = <<>>
    /\ listIsNull = FALSE
    /\ includedMeshes = <<>>
    /\ excludedMeshes = <<>>
    /\ hasOnChange = FALSE
    /\ onChangeCalled = FALSE
    /\ transfer = NoTransfer

\* _handleChange(_, direction, moveKeys) (lines 82-125).
HandleChange(direction, moveKeys) ==
    /\ transfer' = [direction |-> direction, moveKeys |-> moveKeys]
    /\ IF listIsNull
       THEN /\ onChangeCalled' = FALSE
            /\ UNCHANGED <<renderList, includedMeshes, excludedMeshes>>
       ELSE /\ renderList' = ForEachKey(renderList, direction, moveKeys, 1)
            /\ onChangeCalled' = hasOnChange
            /\ includedMeshes' = getIncludedMeshes(renderList')
            /\ excludedMeshes' = getExcludedMeshes(renderList')
    /\ UNCHANGED <<listIsNull, hasOnChange>>
    /\ UNCHANGED <<execVars, impVars, conVars, widVars, astVars, sbxVars, expVars, mouVars, movVars>>

\* The render target's list is set to null by the editor.
RenderListSetNull ==
    /\ ~listIsNull
    /\ listIsNull' = TRUE
    /\ renderList' = <<>>
    /\ transfer' = NoTransfer
    /\ onChangeCalled' = FALSE
    /\ UNCHANGED <<includedMeshes, excludedMeshes, hasOnChange>>
    /\ UNCHANGED <<execVars, impVars, conVars, widVars, astVars, sbxVars, expVars, mouVars, movVars>>

\* --------------------------------------------------- assets browser: moving
\* AssetsBrowser.moveSelectedItems and _moveFile (lines 774-828).

MaxItems == 2

\* A selected item: a file with its extension, or a directory with the
\* extensions of the files GetGlobFiles finds under it.
File(e) == [dir |-> FALSE, exts |-> <<e>>]
Directory(es) == [dir |-> TRUE, exts |-> es]
ItemKinds ==
    {File(".PNG"), File(".txt"),
     Directory(<<>>), Directory(<<".json">>), Directory(<<".PNG", ".txt">>)}

\* items ?? this._files?.selectedItems; no selection and an empty one are
\* the same to the test of line 776.
Selections == UNION {[1..n -> ItemKinds] : n \in 0..MaxItems}

\* _moveFile(absolutePath, to, physicallyMove) up to its first await
\* (lines 816-827): the state of its promise.
moveFile(reg, e, physicallyMove) ==
    LET handler == find(reg, toLowerCase(e), 1)
    IN [st |-> IF handler # Null THEN "handler"
               ELSE IF physicallyMove THEN "pathExists"
               ELSE "fulfilled",
        phys |-> physicallyMove,
        handler |-> handler]

\* _moveFile after handler.moveFile has settled (lines 821-825).
MoveFileAfterHandler(t, ok) ==
    IF ~ok THEN [t EXCEPT !.st = "rejected"]
    ELSE IF t.phys THEN [t EXCEPT !.st = "pathExists"]
    ELSE [t EXCEPT !.st = "fulfilled"]

\* _moveFile after pathExists has answered (lines 825-827).
MoveFileAfterPathExists(t, exists) ==
    IF exists THEN [t EXCEPT !.st = "fulfilled"] ELSE [t EXCEPT !.st = "move"]

\* _moveFile after move has settled (lines 826-828).
MoveFileAfterMove(t, ok) ==
    [t EXCEPT !.st = IF ok THEN "fulfilled" ELSE "rejected"]

\* The promise of an item: of a file, the promise of _moveFile; of a
\* directory, the promise of lines 797-802 and the promises of its files.
FilePromise(reg, e) ==
    [dir |-> FALSE, st |-> "file", file |-> moveFile(reg, e, TRUE), subs |-> <<>>]

NoFile == [st |-> "none", phys |-> FALSE, handler |-> Null]

\* Lines 785-802: a _moveFile for every file found, and the executor up to
\* its first await.
DirectoryPromise_NotAwaited(reg, es) ==
    [dir |-> TRUE, st |-> "move", file |-> NoFile,
     subs |-> [j \in 1..Len(es) |-> moveFile(reg, es[j], FALSE)]]

DirectoryPromise(reg, es) ==
    [dir |-> TRUE, st |-> "all", file |-> NoFile,
     subs |-> [j \in 1..Len(es) |-> moveFile(reg, es[j], FALSE)]]

\* The state of a promise as Promise.all sees it.
Settled(p) ==
    IF p.dir THEN (IF p.st = "fulfilled" THEN "fulfilled" ELSE "pending")
    ELSE IF p.file.st \in {"fulfilled", "rejected"} THEN p.file.st
    ELSE "pending"

\* The files a list of _moveFile promises has called a handler on, and the
\* ones it has called move on.
Running(i, subs, what) == {<<i, j>> : j \in {k \in 1..Len(subs) : subs[k].st = what}}

InitMov ==
    /\ selectedItems = <<>>
    /\ mpc = "idle"
    /\ itemIndex = 0
    /\ promises = <<>>
    /\ handlerRuns = {}
    /\ movedPaths = {}
    /\ refreshCalled = FALSE

IdleMov == InitMov

MovFrame == UNCHANGED <<execVars, impVars, conVars, widVars, astVars, sbxVars, expVars, mouVars, rlVars>>

\* The for loop goes to the next item, or to await Promise.all(promises).
NextItem ==
    IF itemIndex < Len(selectedItems)
    THEN mpc' = "stat" /\ itemIndex' = itemIndex + 1
    ELSE mpc' = "all" /\ UNCHANGED itemIndex

\* moveSelectedItems(to, items) up to its first await (lines 774-783).
CallMoveSelectedItems(items) ==
    /\ mpc = "idle"
    /\ selectedItems' = items
    /\ IF Len(items) = 0
       THEN mpc' = "returned" /\ UNCHANGED itemIndex
       ELSE mpc' = "stat" /\ itemIndex' = 1
    /\ UNCHANGED <<promises, handlerRuns, movedPaths, refreshCalled>>
    /\ MovFrame

\* await stat(item) settles (lines 783-785, 803-805).
StatSettles(ok) ==
    /\ mpc = "stat"
    /\ LET it == selectedItems[itemIndex]
       IN IF ~ok THEN mpc' = "failed" /\ UNCHANGED <<itemIndex, promises, handlerRuns>>
          ELSE IF it.dir THEN mpc' = "glob" /\ UNCHANGED <<itemIndex, promises, handlerRuns>>
          ELSE LET p == FilePromise(registry, it.exts[1])
               IN /\ promises' = Append(promises, p)
                  /\ handlerRuns' = handlerRuns \cup
                        (IF p.file.st = "handler" THEN {<<itemIndex, 0>>} ELSE {})
                  /\ NextItem
    /\ UNCHANGED <<selectedItems, movedPaths, refreshCalled>>
    /\ MovFrame

\* await FSTools.GetGlobFiles settles (lines 787-802).
GlobSettles(ok) ==
    /\ mpc = "glob"
    /\ IF ~ok THEN mpc' = "failed" /\ UNCHANGED <<itemIndex, promises, handlerRuns>>
       ELSE LET p == DirectoryPromise(registry, selectedItems[itemIndex].exts)
            IN /\ promises' = Append(promises, p)
               /\ handlerRuns' = handlerRuns \cup Running(itemIndex, p.subs, "handler")
               /\ NextItem
    /\ UNCHANGED <<selectedItems, movedPaths, refreshCalled>>
    /\ MovFrame

\* handler.moveFile settles for a selected file.
FileHandlerSettles(i, ok) ==
    /\ i \in 1..Len(promises)
    /\ promises[i].file.st = "handler"
    /\ promises' = [promises EXCEPT ![i].file = MoveFileAfterHandler(@, ok)]
    /\ UNCHANGED <<selectedItems, mpc, itemIndex, handlerRuns, movedPaths, refreshCalled>>
    /\ MovFrame

\* pathExists answers for a selected file; move is called if it says no.
FilePathExistsSettles(i, exists) ==
    /\ i \in 1..Len(promises)
    /\ promises[i].file.st = "pathExists"
    /\ promises' = [promises EXCEPT ![i].file = MoveFileAfterPathExists(@, exists)]
    /\ movedPaths' = movedPaths \cup (IF exists THEN {} ELSE {<<i, 0>>})
    /\ UNCHANGED <<selectedItems, mpc, itemIndex, handlerRuns, refreshCalled>>
    /\ MovFrame

\* move settles for a selected file.
FileMoveSettles(i, ok) ==
    /\ i \in 1..Len(promises)
    /\ promises[i].file.st = "move"
    /\ promises' = [promises EXCEPT ![i].file = MoveFileAfterMove(@, ok)]
    /\ UNCHANGED <<selectedItems, mpc, itemIndex, handlerRuns, movedPaths, refreshCalled>>
    /\ MovFrame

\* handler.moveFile settles for a file of a directory.
SubHandlerSettles(i, j, ok) ==
    /\ i \in 1..Len(promises)
    /\ j \in 1..Len(promises[i].subs)
    /\ promises[i].subs[j].st = "handler"
    /\ promises' = [promises EXCEPT ![i].subs[j] = MoveFileAfterHandler(@, ok)]
    /\ UNCHANGED <<selectedItems, mpc, itemIndex, handlerRuns, movedPaths, refreshCalled>>
    /\ MovFrame

\* await Promise.all(directoryPromises) settles (lines 798-799): it rejects
\* with the first rejection, and the executor then never resolves; it
\* fulfils when every promise has, and move is called on the directory.
DirectoryAllSettles(i) ==
    /\ i \in 1..Len(promises)
    /\ promises[i].dir /\ promises[i].st = "all"
    /\ LET subs == promises[i].subs
       IN \/ /\ \E j \in 1..Len(subs) : subs[j].st = "rejected"
             /\ promises' = [promises EXCEPT ![i].st = "thrown"]
             /\ UNCHANGED movedPaths
          \/ /\ \A j \in 1..Len(subs) : subs[j].st = "fulfilled"
             /\ promises' = [promises EXCEPT ![i].st = "move"]
             /\ movedPaths' = movedPaths \cup {<<i, 0>>}
    /\ UNCHANGED <<selectedItems, mpc, itemIndex, handlerRuns, refreshCalled>>
    /\ MovFrame

\* await move(item, ...) settles for a directory (lines 799-801).
DirectoryMoveSettles(i, ok) ==
    /\ i \in 1..Len(promises)
    /\ promises[i].dir /\ promises[i].st = "move"
    /\ promises' = [promises EXCEPT ![i].st = IF ok THEN "fulfilled" ELSE "thrown"]
    /\ UNCHANGED <<selectedItems, mpc, itemIndex, handlerRuns, movedPaths, refreshCalled>>
    /\ MovFrame

\* await Promise.all(promises) settles; refresh (lines 808-809).
AllSettles ==
    /\ mpc = "all"
    /\ \/ /\ \E i \in 1..Len(promises) : Settled(promises[i]) = "rejected"
          /\ mpc' = "failed"
          /\ UNCHANGED refreshCalled
       \/ /\ \A i \in 1..Len(promises) : Settled(promises[i]) = "fulfilled"
          /\ mpc' = "done"
          /\ refreshCalled' = TRUE
    /\ UNCHANGED <<selectedItems, itemIndex, promises, handlerRuns, movedPaths>>
    /\ MovFrame

\* ------------------------------------------------------- specifications
Init == InitExec /\ IdleImp /\ IdleCon /\ IdleWid /\ IdleAst /\ InitSbx /\ IdleExp /\ IdleMou /\ IdleRl /\ IdleMov

Next ==
    \/ \E n \in Nodes : CallOnExecute(n)
    \/ \E n \in Nodes : CallTriggerSlot(n)
    \/ \E n \in Nodes : CallResume(n)
    \/ \E n \in Nodes : CallOnStop(n)
    \/ \E n \in Nodes : CallOnMouseDown(n)
    \/ CallResumeExecution
    \/ \E a \in Slots : ExecuteSettles(a)
    \/ RunMicrotask

Spec == Init /\ [][Next]_vars

NextImport == ImportProject \/ Settle \/ SceneReady

InitImport == InitExec /\ InitImp /\ IdleCon /\ IdleWid /\ IdleAst /\ InitSbx /\ IdleExp /\ IdleMou /\ IdleRl /\ IdleMov

SpecImport == InitImport /\ [][NextImport]_vars

InitConnect == InitExec /\ IdleImp /\ InitCon /\ IdleWid /\ IdleAst /\ InitSbx /\ IdleExp /\ IdleMou /\ IdleRl /\ IdleMov

NextConnect ==
    \/ \E o \in GNodes, t \in GNodes : UserConnect(o, t)
    \/ \E t \in GNodes : UserDisconnect(t)

SpecConnect == InitConnect /\ [][NextConnect]_vars

InitWidget == InitExec /\ IdleImp /\ IdleCon /\ InitWid /\ IdleAst /\ InitSbx /\ IdleExp /\ IdleMou /\ IdleRl /\ IdleMov

NextWidget ==
    \/ InitialValueTimer
    \/ \E v \in Values : WidgetChanged(v)
    \/ \E d \in Delays : TimePasses(d)
    \/ DebounceTimer
    \/ Undo
    \/ Redo

SpecWidget == InitWidget /\ [][NextWidget]_vars

NextProperty ==
    \/ NextWidget
    \/ \E name \in PropertyNames, v \in Values : PropertyChanged(name, v)

SpecProperty == InitWidget /\ [][NextProperty]_vars

InitAssets == InitExec /\ IdleImp /\ IdleCon /\ IdleWid /\ InitAst /\ InitSbx /\ IdleExp /\ IdleMou /\ IdleRl /\ IdleMov

NextAssets ==
    \/ \E e \in Extensions : CallRenameFile(e)
    \/ \E b \in BOOLEAN : PathExistsSettles(b)
    \/ \E b \in BOOLEAN : HandlerSettles(b)
    \/ \E b \in BOOLEAN : MoveSettles(b)

SpecAssets == InitAssets /\ [][NextAssets]_vars

InitSandbox == InitExec /\ IdleImp /\ IdleCon /\ IdleWid /\ IdleAst /\ InitSbx /\ IdleExp /\ IdleMou /\ IdleRl /\ IdleMov

NextSandbox ==
    \/ \E m \in Messages : Message(m)
    \/ \E k \in 1..MaxMessages, o \in CallOutcomes : CallSettles(k, o)

SpecSandbox == InitSandbox /\ [][NextSandbox]_vars

InitExport == InitExec /\ IdleImp /\ IdleCon /\ IdleWid /\ IdleAst /\ InitSbx /\ InitExp /\ IdleMou /\ IdleRl /\ IdleMov

NextExport ==
    \/ CallExport
    \/ \E k \in BlockIds, b \in {"buffer", "null", "throws"} : ConvertSettles(k, b)
    \/ \E k \in BlockIds, ok \in BOOLEAN : WriteSettles(k, ok)

SpecExport == InitExport /\ [][NextExport]_vars

InitMouse == InitExec /\ IdleImp /\ IdleCon /\ IdleWid /\ IdleAst /\ InitSbx /\ IdleExp /\ IdleMou /\ IdleRl /\ IdleMov

NextMouse ==
    \/ \E n \in Nodes : CallOnExecute(n)
    \/ \E n \in Nodes : MouseDown(n)
    \/ \E a \in Slots : ExecuteSettles(a)
    \/ RunMicrotask

SpecMouse == InitMouse /\ [][NextMouse]_vars

InitRenderList == InitExec /\ IdleImp /\ IdleCon /\ IdleWid /\ IdleAst /\ InitSbx /\ IdleExp /\ IdleMou /\ InitRl /\ IdleMov

NextRenderList ==
    \/ \E d \in Directions, ks \in MoveKeys : HandleChange(d, ks)
    \/ RenderListSetNull

SpecRenderList == InitRenderList /\ [][NextRenderList]_vars

InitMove == InitExec /\ IdleImp /\ IdleCon /\ IdleWid /\ InitAst /\ InitSbx /\ IdleExp /\ IdleMou /\ IdleRl /\ InitMov

NextMove ==
    \/ \E items \in Selections : CallMoveSelectedItems(items)
    \/ \E b \in BOOLEAN : StatSettles(b)
    \/ \E b \in BOOLEAN : GlobSettles(b)
    \/ \E i \in 1..Len(promises), b \in BOOLEAN : FileHandlerSettles(i, b)
    \/ \E i \in 1..Len(promises), b \in BOOLEAN : FilePathExistsSettles(i, b)
    \/ \E i \in 1..Len(promises), b \in BOOLEAN : FileMoveSettles(i, b)
    \/ \E i \in 1..Len(promises) : \E j \in 1..Len(promises[i].subs), b \in BOOLEAN :
          SubHandlerSettles(i, j, b)
    \/ \E i \in 1..Len(promises) : DirectoryAllSettles(i)
    \/ \E i \in 1..Len(promises), b \in BOOLEAN : DirectoryMoveSettles(i, b)
    \/ AllSettles

SpecMove == InitMove /\ [][NextMove]_vars

\* ------------------------------------------------ graph execution: claims

ExecAct(a) == acts[a].kind = "exec"
Pending(a) == acts[a].pc \in WaitPcs /\ acts[a].prom = "pending"

\* The job that just ran called resume() on node n.
ResumeCalledOn(e, n, wasPaused) ==
    \/ e.op = "resume" /\ e.node = n
    \/ e.op = "ResumeExecution"
    \/ e.op = "onMouseDown" /\ wasPaused

\* C1: an activation of onExecute that finds the breakpoint flag set (the graph
\* not being paused) sets graph.hasPaused and starts waiting; its wait is
\* fulfilled only by a resume() on its node, and it invokes execute() only
\* from the continuation of that fulfilled wait.
C1_BreakpointBlocks ==
    [][\A a \in Slots :
        /\ (acts'[a].pc = "bpWait" /\ acts[a].pc # "bpWait")
              => (hasPaused' /\ acts'[a].prom = "pending")
        /\ (acts[a].pc = "bpWait" /\ acts[a].prom = "pending" /\ acts'[a] # acts[a])
              => ResumeCalledOn(ev', acts[a].node, pausedOnBreakPoint[ev'.node])
        /\ (acts[a].pc = "bpWait" /\ acts'[a].pc # "bpWait")
              => (acts[a].prom = "resolved" /\ ev'.op = "continue" /\ ev'.act = a)
        /\ (ev'.started /\ ev'.act = a /\ ~ev'.viaBP) => ~hasBeakPoint[ev'.node]
        /\ (ev'.started /\ ev'.act = a /\ ev'.viaBP) => acts[a].pc = "bpWait"
      ]_vars

C1_Witness ==
    /\ ev.op = "continue" /\ ev.started /\ ev.viaBP
    /\ hasPaused /\ hasBeakPoint[ev.node]

\* C2: resume() resolves the stored resolver and clears it: at most one
\* awaiter is released, _resumeFn is null afterwards, a resume() with no
\* stored resolver changes nothing, and so does a second resume() that
\* directly follows a first one on the same node.
C2_ResumeOnce ==
    [][ev'.op = "resume" =>
        LET n == ev'.node
            a == resumeFn[n]
        IN /\ resumeFn' = [resumeFn EXCEPT ![n] = Null]
           /\ UNCHANGED <<hasPaused, PausedNode, hasBeakPoint, pausedOnBreakPoint, isExecuting>>
           /\ IF a # Null /\ Pending(a)
              THEN /\ acts' = [acts EXCEPT ![a].prom = "resolved"]
                   /\ mq' = Append(mq, a)
              ELSE UNCHANGED <<acts, mq>>
           /\ (a = Null => UNCHANGED <<acts, mq, resumeFn>>)
           /\ (ev.op = "resume" /\ ev.node = n => UNCHANGED <<acts, mq, resumeFn>>)
      ]_vars

C2_Witness ==
    /\ ev.op = "resume"
    /\ resumeFn[ev.node] = Null
    /\ \E a \in Slots : /\ acts[a].node = ev.node
                        /\ acts[a].pc \in WaitPcs
                        /\ acts[a].prom = "resolved"
                        /\ mq = <<a>>

\* C3: while graph.hasPaused is true, an activation that did not wait at its
\* own breakpoint never starts execute(), no activation completes, and an
\* activation that is continued (or entered) without starting execute() is
\* waiting again.
C3_PauseRechecked ==
    /\ (ev.started /\ ~ev.viaBP) => ~hasPaused
    /\ ev.finished => ~hasPaused
    /\ (hasPaused /\ ev.op \in {"continue", "onExecute"} /\ ev.act # Null
          /\ ~ev.started /\ ~ev.forwarded)
          => (ExecAct(ev.act) /\ Pending(ev.act))

C3_Witness ==
    /\ ev.op = "continue" /\ hasPaused /\ ~ev.started
    /\ acts[ev.act].pc = "preWait" /\ acts[ev.act].prom = "pending"
    /\ PausedNode # Null /\ PausedNode # ev.node

AtBreakPoint(n) == \E a \in Slots : ExecAct(a) /\ acts[a].node = n /\ acts[a].pc = "bpWait"

\* C4 (as claimed): NodeUtils.PausedNode refers to a node exactly while that
\* node is suspended at its own breakpoint inside onExecute.
C4_PausedNodeExact ==
    /\ PausedNode # Null => AtBreakPoint(PausedNode)
    /\ (\E n \in Nodes : AtBreakPoint(n)) => PausedNode # Null

\* C4 (amended): PausedNode is the node when the breakpoint wait begins, is
\* null after the continuation of that wait and after onStop, and whenever it
\* is not null it refers to a node suspended at its breakpoint; it can be null
\* while a node is still suspended (onStop does not release the wait).
C4_PausedNodeSound ==
    /\ PausedNode # Null => AtBreakPoint(PausedNode)
    /\ (ev.op \in {"continue", "onExecute"} /\ ev.act # Null /\ acts[ev.act].pc = "bpWait")
          => PausedNode = ev.node
    /\ (ev.op = "continue" /\ ev.viaBP) => PausedNode = Null
    /\ ev.op = "onStop" => PausedNode = Null

C4_Witness ==
    /\ ev.op = "onStop"
    /\ PausedNode = Null
    /\ AtBreakPoint(ev.node)

\* C5: a suspended activation (one awaiting waitForBreakPoint) changes state
\* only by a resume() on its node, which fulfils its wait; onStop,
\* triggerSlot, further onExecute calls and breakpoint toggles leave it
\* suspended.
C5_OnlyResumeReleases ==
    [][\A a \in Slots :
        (Pending(a) /\ acts'[a] # acts[a])
            => /\ ResumeCalledOn(ev', acts[a].node, pausedOnBreakPoint[ev'.node])
               /\ acts'[a] = [acts[a] EXCEPT !.prom = "resolved"]
      ]_vars

C5_Witness ==
    /\ ev.op = "onStop"
    /\ \E a \in Slots : ExecAct(a) /\ acts[a].node = ev.node /\ Pending(a)
    /\ \E b \in Slots : acts[b].kind = "trig" /\ Pending(b)

\* C6: when execute() throws or its promise rejects, the error is logged,
\* onExecute does not reject, and the activation goes on to the check after
\* the work: it waits again if the graph is paused and otherwise ends with
\* _isExecuting cleared.
C6_ErrorIsLogged ==
    /\ ~ev.rejected
    /\ ev.threw => /\ ev.logged
                   /\ ev.act # Null
                   /\ IF hasPaused
                      THEN acts[ev.act].pc = "postWait" /\ Pending(ev.act)
                      ELSE ev.finished
    /\ ev.finished => (~isExecuting[ev.node] /\ acts[ev.act].pc = "free")

C6_Witness ==
    /\ ev.threw /\ ev.op = "continue" /\ ~ev.started
    /\ ev.finished /\ ~isExecuting[ev.node]

\* ------------------------------------------ graph execution: further claims

\* C14: pausedOnBreakPoint is true exactly while the node is paused on its
\* breakpoint: true once onExecute suspends the node at its breakpoint, false
\* once the resumed node continues executing and after onStop, and never true
\* on a node that is not suspended at its breakpoint.
C14_PausedFlagExact ==
    /\ (ev.op \in {"continue", "onExecute"} /\ ev.act # Null /\ acts[ev.act].pc = "bpWait")
          => pausedOnBreakPoint[ev.node]
    /\ (ev.op = "continue" /\ ev.viaBP) => ~pausedOnBreakPoint[ev.node]
    /\ ev.op = "onStop" => ~pausedOnBreakPoint[ev.node]
    /\ \A n \in Nodes : pausedOnBreakPoint[n] => AtBreakPoint(n)

\* A node resumed from its breakpoint has gone on to execute().
C14_Witness ==
    /\ ev.op = "continue" /\ ev.viaBP /\ ev.started
    /\ ~AtBreakPoint(ev.node)

\* C17: onStop sets the node's pausedOnBreakPoint and _isExecuting to false
\* and NodeUtils.PausedNode to null, whatever they were, and changes nothing
\* else: hasBeakPoint, graph.hasPaused, the stored resolver, the activations
\* and the flags of the other nodes are as before.
C17_OnStopFrame ==
    [][ev'.op = "onStop" =>
        LET n == ev'.node
        IN /\ pausedOnBreakPoint' = [pausedOnBreakPoint EXCEPT ![n] = FALSE]
           /\ isExecuting' = [isExecuting EXCEPT ![n] = FALSE]
           /\ PausedNode' = Null
           /\ UNCHANGED <<hasBeakPoint, hasPaused, resumeFn, acts, mq>>
      ]_vars

\* onStop ran on a node suspended at its breakpoint in a paused graph.
C17_Witness ==
    /\ ev.op = "onStop"
    /\ hasPaused /\ hasBeakPoint[ev.node]
    /\ resumeFn[ev.node] # Null
    /\ acts[resumeFn[ev.node]].pc = "bpWait" /\ acts[resumeFn[ev.node]].prom = "pending"
    /\ ~pausedOnBreakPoint[ev.node] /\ ~isExecuting[ev.node] /\ PausedNode = Null

\* The activations of onExecute on node n that have not finished.
Activations(n) == {a \in Slots : ExecAct(a) /\ acts[a].node = n /\ acts[a].pc # "free"}

\* C21: at most one activation of onExecute of a node is in progress at a
\* time, and an onExecute call on a node that has an unfinished activation
\* is skipped: it starts no activation and does not run execute().
C21_OneActivation ==
    /\ [](\A n \in Nodes : Cardinality(Activations(n)) <= 1)
    /\ [][(ev'.op = "onExecute" /\ Activations(ev'.node) # {})
            => (ev'.skipped /\ ~ev'.started /\ acts' = acts)]_vars

\* An onExecute call has started a second activation on a node whose first
\* one is still awaiting execute().
C21_Witness ==
    /\ ev.op = "onExecute" /\ ~ev.skipped
    /\ Cardinality(Activations(ev.node)) = 2
    /\ \E a \in Activations(ev.node) : a # ev.act /\ acts[a].pc = "executing"

\* C22: every pending wait of a node, from onExecute or from triggerSlot, is
\* the one the node's _resumeFn resolves, so that resume() on the node
\* releases it.
C22_EveryWaitReachable ==
    \A a \in Slots : Pending(a) => resumeFn[acts[a].node] = a

\* A triggerSlot wait has replaced the resolver of an activation suspended
\* at the breakpoint of the same node.
C22_Witness ==
    \E a, b \in Slots :
        /\ ExecAct(a) /\ acts[a].pc = "bpWait" /\ Pending(a)
        /\ acts[b].kind = "trig" /\ Pending(b) /\ acts[b].node = acts[a].node
        /\ resumeFn[acts[a].node] = b

\* C23: a triggerSlot call forwards the trigger at once when the graph is not
\* paused at the call and otherwise waits; a waiting call forwards only from
\* the continuation of its wait, once resume() has fulfilled it, and then
\* ends; and no trigger is forwarded while graph.hasPaused is true.
C23_ForwardedWhenRunning ==
    /\ [](ev.forwarded => ~hasPaused)
    /\ [][/\ (ev'.op = "triggerSlot" /\ ~hasPaused) => (ev'.forwarded /\ acts' = acts)
          /\ (ev'.op = "triggerSlot" /\ hasPaused) =>
                /\ ~ev'.forwarded
                /\ ev'.act # Null /\ acts'[ev'.act].pc = "trigWait"
                /\ acts'[ev'.act].prom = "pending"
          /\ (ev'.forwarded /\ ev'.op # "triggerSlot") =>
                /\ ev'.op = "continue"
                /\ acts[ev'.act].pc = "trigWait" /\ acts[ev'.act].prom = "resolved"
                /\ acts'[ev'.act].pc = "free"
         ]_vars

\* The continuation of a triggerSlot wait has forwarded the trigger in a
\* graph that is still paused.
C23_Witness ==
    /\ ev.op = "continue" /\ ev.forwarded
    /\ hasPaused

\* --------------------------------------------------- project import: claims

Positions == 1..Len(Order(project))
NodePositions == {i \in Positions : Order(project)[i].cat \in NodeCats}
PosOf(k) == CHOOSE i \in Positions : Order(project)[i].id = k

\* C7: the serialized parent id of every loaded mesh, transform node, light
\* and camera is kept in metadata._waitingParentId and no parent is set until
\* the parent-id pass, which runs when every node entry has loaded or failed;
\* after the pass every node whose parent is in the scene has that parent,
\* also when it was loaded before its parent, and no node keeps a waiting id.
C7_ParentsAfterLoad ==
    /\ ~passDone => \A k \in inScene :
           parent[k] = Null /\ waiting[k] = project.parentId[k]
    /\ passDone => /\ NodePositions \subseteq ended
                   /\ \A k \in inScene :
                        /\ waiting[k] = Null
                        /\ parent[k] = IF project.parentId[k] \in inScene
                                       THEN project.parentId[k] ELSE Null

C7_Witness ==
    /\ passDone
    /\ \E k \in inScene : /\ parent[k] # Null
                          /\ parent[k] = project.parentId[k]
                          /\ PosOf(k) < PosOf(parent[k])

\* The order of the categories in the claim.
CatRank(cat) ==
    CASE cat = "mesh" -> 1 [] cat = "transform" -> 2 [] cat = "material" -> 3
      [] cat = "texture" -> 4 [] cat = "light" -> 5 [] cat = "camera" -> 6
      [] cat = "particleSystem" -> 7 [] cat = "sound" -> 8

\* C8: _ImportProject has at most one read or load in flight; an entry is
\* started only when every entry before it has loaded or failed; the entries
\* are taken in the order meshes, transform nodes, materials, textures,
\* lights, cameras, particle systems, sounds; the parent-id pass and the
\* registration of the refresh come after all of them.
C8_Sequential ==
    /\ Cardinality(io) <= 1
    /\ \A i \in begun : \A j \in 1..(i - 1) : j \in ended
    /\ \A i \in Positions : \A j \in Positions :
          i < j => CatRank(Order(project)[i].cat) <= CatRank(Order(project)[j].cat)
    /\ passDone => ended = Positions
    /\ refresh = "registered" => (passDone /\ ended = Positions)
    /\ (refresh = "called" /\ ipc.at # "failed") => passDone

C8_Witness ==
    /\ refresh = "registered"
    /\ inScene = NodeIds
    /\ \E k \in NodeIds : project.cat[k] = "mesh"
    /\ \E k \in NodeIds : project.cat[k] = "light"

\* ------------------------------------------------ node connections: claims

LinkedTo(o, t) == inLink[t] # NoLink /\ inLink[t].origin = o
Follows(t) == HasOutput(slots[t].linkedOutput) /\ cmode[t] # "NEVER"

\* C9 (as claimed): after every change of connections, every node that is
\* linked through an input declaring linkedOutput, has that output and is not
\* in mode NEVER carries on it the type of the output it is linked to; a node
\* in mode NEVER keeps its output type.
C9_TypeFollowsLink ==
    [][/\ \A o \in GNodes, t \in GNodes :
            (LinkedTo(o, t)' /\ Follows(t)') => outType'[t] = outType'[o]
       /\ \A n \in GNodes : cmode[n] = "NEVER" => outType'[n] = outType[n]
      ]_vars

\* C9 (amended): the same for the links that carry a type (link.type is not
\* empty).
C9_TypedLinkFollows ==
    [][/\ \A o \in GNodes, t \in GNodes :
            (LinkedTo(o, t)' /\ Follows(t)' /\ inLink'[t].type # "")
                => outType'[t] = outType'[o]
       /\ \A n \in GNodes : cmode[n] = "NEVER" => outType'[n] = outType[n]
      ]_vars

\* A chain 1 -> 2 -> 3 of linked outputs that took the type of the source.
C9_Witness ==
    /\ LinkedTo(1, 2) /\ LinkedTo(2, 3)
    /\ Follows(2) /\ Follows(3)
    /\ inLink[2].type # "" /\ inLink[3].type # ""
    /\ outType[1] = "number" /\ outType[2] = "number" /\ outType[3] = "number"

\* C15: on a node that is not in mode NEVER, a change of the link of an input
\* of type EVENT sets the mode to ON_TRIGGER when the link was added and to
\* ALWAYS when it was removed; changes on outputs and on other inputs, and
\* any change on a node in mode NEVER, leave the mode as it was.
C15_ModeFollowsEventLink ==
    [][\A n \in GNodes :
          IF cmode[n] # "NEVER" /\ slots[n].type = EVENT /\ inLink'[n] # inLink[n]
          THEN cmode'[n] = IF inLink'[n] # NoLink THEN "ON_TRIGGER" ELSE "ALWAYS"
          ELSE cmode'[n] = cmode[n]
      ]_vars

\* The event input of a node is plugged and the node is in mode ON_TRIGGER,
\* the event input of another node is not and that node is in mode ALWAYS.
C15_Witness ==
    /\ slots[2].type = EVENT /\ slots[3].type = EVENT
    /\ inLink[2] # NoLink /\ cmode[2] = "ON_TRIGGER"
    /\ inLink[3] = NoLink /\ cmode[3] = "ALWAYS"

\* ---------------------------------------------------- widget changes: claims

\* One debounce timer is pending during a burst of changes, none outside.
OneTimerPerBurst ==
    Len(SelectSeq(timers, LAMBDA t : t.fn = "debounce")) = IF burst.active THEN 1 ELSE 0

\* The entry is pushed 500 ms after the last change of the burst, alone.
PushedAfterBurst ==
    wev = "push" => /\ burst.idle = DebounceMs
                    /\ position = Len(stack)
                    /\ stack[position].newValue = burst.last

\* Undo and redo apply the values of the entry.
EntryApplied ==
    /\ wev = "undo" => wvalue = stack[position + 1].oldValue /\ prop = wvalue
    /\ wev \in {"redo", "push"} => wvalue = stack[position].newValue /\ prop = wvalue

\* C10: a burst of changes yields exactly one undo/redo entry, pushed 500 ms
\* after the last change, whose undo restores the value before the burst and
\* whose redo restores the last value of the burst.
C10_DebouncedUndoRedo ==
    /\ OneTimerPerBurst
    /\ PushedAfterBurst
    /\ EntryApplied
    /\ wev = "push" => stack[position].oldValue = burst.before

\* What holds of C10: everything but the value the undo restores.
C10_DebouncedEntry ==
    /\ OneTimerPerBurst
    /\ PushedAfterBurst
    /\ EntryApplied

\* A burst of changes has been pushed as one entry.
C10_Witness ==
    /\ wev = "push"
    /\ position = 1
    /\ burst.before # burst.last
    /\ stack[1].newValue = burst.last

RegisteredFor(ext) ==
    IF \E k \in 1..Len(registry) : toLowerCase(ext) \in registry[k].extensions
    THEN CHOOSE k \in 1..Len(registry) :
             /\ toLowerCase(ext) \in registry[k].extensions
             /\ \A j \in 1..(k - 1) : toLowerCase(ext) \notin registry[j].extensions
    ELSE Null

\* C11: renameFile calls no handler, moves nothing and refreshes nothing when
\* the destination exists; otherwise the file is moved only once the handler
\* registered for its lower-cased extension, if any, has completed, and the
\* browser is refreshed only once the move has completed.
C11_RenameOrder ==
    /\ rn.existed => rn.handling = "none" /\ rn.moving = "none" /\ ~rn.refreshed
    /\ rn.handling # "none" => rn.handler = RegisteredFor(rn.ext) /\ rn.handler # Null
    /\ rn.moving # "none" =>
           IF RegisteredFor(rn.ext) # Null THEN rn.handling = "done"
           ELSE rn.handling = "none"
    /\ rn.refreshed => rn.moving = "done"

\* A file with an upper-case extension has been moved and the browser
\* refreshed, after the handler of the lower-cased extension.
C11_Witness ==
    /\ rn.ext = ".PNG"
    /\ rn.handling = "done"
    /\ rn.handler = 2
    /\ rn.moving = "done"
    /\ rn.refreshed

\* ------------------------------------------------------------ sandbox: claims

Count(seq, fn, id) ==
    Cardinality({k \in 1..Len(seq) : seq[k].fn = fn /\ seq[k].id = id})

\* Every request is either still awaited or has got its one reply, and a
\* reply carries a result or an error, never both.
RepliesMatch ==
    /\ \A k \in 1..Len(posted) : (posted[k].result = Absent) # (posted[k].error = Absent)
    /\ \A k \in 1..Len(posted) : Count(requests, posted[k].fn, posted[k].id) > 0

\* C12: each message carrying fn, args and id gets exactly one reply with its
\* fn and id and either a result or an error; other messages run nothing and
\* get no reply; replies carry the id of their own request in any order.
C12_OneReplyPerRequest ==
    /\ RepliesMatch
    /\ \A r \in {requests[k] : k \in 1..Len(requests)} :
           Count(requests, r.fn, r.id) = Count(calls, r.fn, r.id) + Count(posted, r.fn, r.id)

\* What holds of C12: no request gets more than one reply, and every reply
\* is the reply of a request.
C12_AtMostOneReply ==
    /\ RepliesMatch
    /\ \A r \in {requests[k] : k \in 1..Len(requests)} :
           Count(requests, r.fn, r.id) >= Count(calls, r.fn, r.id) + Count(posted, r.fn, r.id)

\* Two requests in flight have been answered in the reverse order.
C12_Witness ==
    /\ Len(requests) >= 2 /\ Len(posted) >= 2
    /\ requests[1].id = "1" /\ requests[2].id = "2"
    /\ posted[1].id = "2" /\ posted[2].id = "1"
    /\ posted[1].error = Absent /\ posted[2].result = Absent

\* ---------------------------------------------------- material export: claims

\* The blocks the call started an export for.
Selected == {k \in BlockIds : exports[k].pc # "none"}

\* The returned list names exactly the written files, once each, and no
\* write is still going on.
ReturnsWrittenFiles ==
    /\ \A k \in Selected : exports[k].pc \in {"done", "nobuffer"}
    /\ {returned[i] : i \in 1..Len(returned)} = written
    /\ Len(returned) = Cardinality(written)

\* A block that was exported points to its own file.
Rewritten(k) ==
    /\ FileName(exports[k].index) \in written
    /\ blocks[k].name = FileName(exports[k].index)
    /\ blocks[k].url = FileName(exports[k].index)
    /\ \A j \in Selected \ {k} : exports[j].index # exports[k].index

\* A block that is not a data URI block of a node material of the scene is
\* not exported.
Skipped(k) == blocks[k].material # "node" \/ blocks[k].name \in {"", "wood.png"}

\* C13 (as claimed): when the call resolves, no write is going on, the
\* returned list is the list of the written files, every block selected for
\* export has its own file and points to it, and skipped blocks are unchanged.
C13_ExportAll ==
    xpc = "resolved" =>
        /\ ReturnsWrittenFiles
        /\ \A k \in Selected : Rewritten(k)
        /\ \A k \in BlockIds : Skipped(k) => exports[k].pc = "none" /\ blocks[k].url \in {"", "wood.png"}

\* C13 (amended): the same, but a selected texture block whose texture could
\* not be converted to a buffer has no file: it keeps its data URI as url and
\* has been renamed.
C13_ExportConverted ==
    xpc = "resolved" =>
        /\ ReturnsWrittenFiles
        /\ \A k \in Selected :
               IF exports[k].pc = "nobuffer"
               THEN /\ blocks[k].url = DataUri /\ blocks[k].name = "editorName"
                    /\ FileName(exports[k].index) \notin written
               ELSE Rewritten(k)
        /\ \A k \in BlockIds : Skipped(k) => exports[k].pc = "none" /\ blocks[k].url \in {"", "wood.png"}

\* The call resolved after writing a texture and a cube texture.
C13_Witness ==
    /\ xpc = "resolved"
    /\ Len(returned) = 2
    /\ blocks[1].customType = "BABYLON.TextureBlock"
    /\ blocks[2].customType = "BABYLON.ReflectionTextureBlock"
    /\ Rewritten(1) /\ Rewritten(2)

\* ------------------------------------------------------- mouse clicks: claims

\* The click is in the breakpoint zone of a node that shows it.
InBreakPointZone(c) ==
    /\ ~c.collapsed
    /\ c.mode = "ON_TRIGGER"
    /\ c.pos[1] >= NodeSize[1] - 30
    /\ c.pos[2] <= 5

Listed(list, mesh) == \E i \in 1..Len(list) : list[i] = mesh
NoMeshTwice(list) == \A i, j \in 1..Len(list) : i # j => list[i] # list[j]
Titles(items) == {items[i].title : i \in 1..Len(items)}

\* C19: the render list never holds a mesh twice; after a transfer to the
\* right every moved key that is the id of a mesh of the scene has its mesh in
\* the list, after a transfer to the left none has; after either the included
\* and excluded items are those computed from the list and come from no
\* common mesh; and a transfer on a null render list changes nothing and does
\* not call onChange.
C19_RenderListTransfers ==
    /\ [](~listIsNull => NoMeshTwice(renderList))
    /\ [][LET tr == transfer'
              moved == {getMeshByID(tr.moveKeys[i]) : i \in 1..Len(tr.moveKeys)} \ {Null}
          IN  tr # NoTransfer =>
                IF listIsNull
                THEN /\ UNCHANGED <<renderList, listIsNull, includedMeshes, excludedMeshes>>
                     /\ ~onChangeCalled'
                ELSE /\ tr.direction = "right" => \A m \in moved : Listed(renderList', m)
                     /\ tr.direction = "left" => \A m \in moved : ~Listed(renderList', m)
                     /\ includedMeshes' = getIncludedMeshes(renderList')
                     /\ excludedMeshes' = getExcludedMeshes(renderList')
                     /\ Titles(includedMeshes') \cap Titles(excludedMeshes') = {}
                     /\ onChangeCalled' = hasOnChange
         ]_vars

\* A transfer to the right of a key whose mesh was listed already and of a
\* key of no mesh, on a list of two meshes.
C19_Witness ==
    /\ transfer = [direction |-> "right", moveKeys |-> <<1, NumMeshes>>]
    /\ ~listIsNull
    /\ Len(renderList) = 2
    /\ Listed(renderList, 1)
    /\ onChangeCalled

\* A transfer arrived after the render list became null.
C19_WitnessNull ==
    /\ listIsNull
    /\ transfer # NoTransfer
    /\ Len(includedMeshes) > 0

\* ---------------------------------------------- assets browser: move claims

DirectoryMoved(i) ==
    promises[i].dir /\ (promises[i].st \in {"move", "fulfilled"} \/ <<i, 0>> \in movedPaths)
HasHandler(e) == find(registry, toLowerCase(e), 1) # Null

\* C20: for every directory handled, a _moveFile promise exists for each file
\* found under it, the handler of each such file that has one has been called,
\* and none of these files is moved or about to be; once move has been called
\* on the directory all these promises are fulfilled; refresh has been called
\* only if the promise of every selected item is fulfilled; and a call with no
\* selected items returns with nothing pushed, handled, moved or refreshed.
C20_MoveSelectedItems ==
    /\ \A i \in 1..Len(promises) :
         LET it == selectedItems[i]
             subs == promises[i].subs
         IN promises[i].dir = it.dir /\
            (it.dir =>
               /\ Len(subs) = Len(it.exts)
               /\ \A j \in 1..Len(subs) :
                    /\ HasHandler(it.exts[j]) <=> <<i, j>> \in handlerRuns
                    /\ subs[j].st \in {"handler", "fulfilled", "rejected"}
                    /\ <<i, j>> \notin movedPaths
               /\ DirectoryMoved(i) => \A j \in 1..Len(subs) : subs[j].st = "fulfilled")
    /\ refreshCalled =>
         /\ Len(selectedItems) > 0
         /\ Len(promises) = Len(selectedItems)
         /\ \A i \in 1..Len(promises) : Settled(promises[i]) = "fulfilled"
    /\ (mpc # "idle" /\ Len(selectedItems) = 0) =>
         /\ mpc = "returned" /\ promises = <<>>
         /\ handlerRuns = {} /\ movedPaths = {} /\ ~refreshCalled

\* A directory of two files, one with a handler, has been moved after a
\* selected file, and refresh has been called.
C20_Witness ==
    /\ refreshCalled
    /\ Len(promises) = 2
    /\ ~promises[1].dir /\ <<1, 0>> \in movedPaths
    /\ promises[2].dir /\ Len(promises[2].subs) = 2
    /\ <<2, 1>> \in handlerRuns /\ <<2, 2>> \notin handlerRuns
    /\ <<2, 0>> \in movedPaths

====
